---- MODULE Spec2Model ----
(***************************************************************************)
(* A model of ikl, the registry image migration tool.                      *)
(*                                                                         *)
(*   SpecCopy  one call of registry.CopyImage: resolving the source tag,   *)
(*             filtering a manifest list by platform, and the one push to  *)
(*             the destination (pkg/registry/client.go).                   *)
(*   SpecList  the tag enumeration of `ikl list-tags`: the sorted tag      *)
(*             list, the worker goroutines behind a semaphore, the results *)
(*             channel and the assembly of the rows (cmd/list.go).         *)
(*                                                                         *)
(* Go strings are sequences of one-character strings, so that              *)
(* strings.Contains is computed, not assumed.  A nil pointer is the empty  *)
(* sequence and a non-nil pointer a one-element sequence.                  *)
(***************************************************************************)
EXTENDS Integers, Sequences, FiniteSets, Bags, TLC

(* ------------------------------------------------------------------ *)
(* Bounds of the model                                                *)
(* ------------------------------------------------------------------ *)

\* the longest manifest list of a source index
MaxChildren == 3

\* the longest platform filter handed to CopyImage
MaxFilter == 2

\* the most tags a repository lists
MaxTags == 3

(* ------------------------------------------------------------------ *)
(* Strings                                                            *)
(* ------------------------------------------------------------------ *)

S_amd64 == <<"a", "m", "d", "6", "4">>
S_arm64 == <<"a", "r", "m", "6", "4">>
S_64 == <<"6", "4">>
S_linux == <<"l", "i", "n", "u", "x">>
S_unknown == <<"u", "n", "k", "n", "o", "w", "n">>
S_v8 == <<"v", "8">>
S_linux_amd64 == <<"l", "i", "n", "u", "x", "/", "a", "m", "d", "6", "4">>

\* the bytes of the characters the model uses
CharCode ==
    [c \in {"a", "b", "c", "d", "e", "i", "k", "l", "m", "n", "o", "r", "s", "t",
            "u", "v", "w", "x", "4", "6", "8", "/"} |->
        CASE c = "a" -> 97 [] c = "b" -> 98 [] c = "c" -> 99 [] c = "d" -> 100 [] c = "e" -> 101 [] c = "i" -> 105 [] c = "k" -> 107
          [] c = "l" -> 108 [] c = "m" -> 109 [] c = "n" -> 110 [] c = "o" -> 111
          [] c = "r" -> 114 [] c = "s" -> 115 [] c = "t" -> 116 [] c = "u" -> 117 [] c = "v" -> 118 [] c = "w" -> 119
          [] c = "x" -> 120 [] c = "4" -> 52 [] c = "6" -> 54 [] c = "8" -> 56
          [] c = "/" -> 47]

\* strings.Index(s, substr): the first offset at which substr occurs, or -1
strings_Index(s, substr) ==
    LET hits == {i \in 0..(Len(s) - Len(substr)) :
                    SubSeq(s, i + 1, i + Len(substr)) = substr}
    IN IF hits = {} THEN -1 ELSE CHOOSE i \in hits : \A j \in hits : i <= j

\* a mistaken strings.Contains: strings.HasPrefix(s, substr)
strings_Contains_HasPrefix(s, substr) ==
    /\ Len(substr) <= Len(s)
    /\ SubSeq(s, 1, Len(substr)) = substr

\* strings.Contains(s, substr)
strings_Contains(s, substr) == strings_Index(s, substr) >= 0

\* fmt.Sprintf("%s/%s", a, b)
Sprintf_slash(a, b) == a \o <<"/">> \o b

\* the sequences over S of length at most n
RECURSIVE SeqsUpTo(_, _)
SeqsUpTo(S, n) ==
    IF n = 0 THEN {<<>>}
    ELSE LET shorter == SeqsUpTo(S, n - 1)
         IN shorter \cup {Append(q, x) : q \in shorter, x \in S}

(* ------------------------------------------------------------------ *)
(* Registry objects                                                   *)
(* ------------------------------------------------------------------ *)

\* v1.Platform values of the children of a source index
Platform(os, arch, variant) == [OS |-> os, Architecture |-> arch, Variant |-> variant]

P_linux_amd64 == Platform(S_linux, S_amd64, <<>>)
P_linux_arm64_v8 == Platform(S_linux, S_arm64, S_v8)
P_unknown == Platform(S_unknown, S_unknown, <<>>)

\* Descriptor.Platform is a pointer: <<>> is nil
ChildPlatforms == {<<>>, <<P_linux_amd64>>, <<P_linux_arm64_v8>>, <<P_unknown>>}

\* the tokens a platform filter is made of: an architecture, a part of one, an
\* os/arch pair, and the architecture of an attestation manifest
FilterTokens == {S_arm64, S_64, S_linux_amd64, S_unknown}

MT_OCIIndex == "application/vnd.oci.image.index.v1+json"
MT_DockerList == "application/vnd.docker.distribution.manifest.list.v2+json"
MT_OCIManifest == "application/vnd.oci.image.manifest.v1+json"

\* types.MediaType.IsIndex
IsIndex(mt) == mt \in {MT_OCIIndex, MT_DockerList}

MediaTypeCode(mt) ==
    CASE mt = MT_OCIIndex -> 1 [] mt = MT_DockerList -> 2
      [] mt = MT_OCIManifest -> 3 [] OTHER -> 0

\* the i-th child descriptor of a source index whose platforms are ps
ChildDescriptor(i, p) ==
    [Digest |-> i, MediaType |-> MT_OCIManifest, Size |-> 500 + i, Platform |-> p]

\* the descriptors of the first n children
RECURSIVE ChildDescriptors(_, _)
ChildDescriptors(ps, n) ==
    IF n = 0 THEN <<>>
    ELSE Append(ChildDescriptors(ps, n - 1), ChildDescriptor(n, ps[n]))

\* v1.IndexManifest
IndexManifestOf(mt, ps, ann) ==
    [SchemaVersion |-> 2, MediaType |-> mt,
     Manifests |-> ChildDescriptors(ps, Len(ps)),
     Annotations |-> ann]

EmptyManifest ==
    [SchemaVersion |-> 0, MediaType |-> "", Manifests |-> <<>>, Annotations |-> <<>>]

NoConfig == [OS |-> <<>>, Architecture |-> <<>>]

\* the bytes of a string, quoted
StringBytes(s) == <<34>> \o [i \in 1..Len(s) |-> CharCode[s[i]]] \o <<34>>

PlatformBytes(p) ==
    IF p = <<>> THEN <<0>>
    ELSE StringBytes(p[1].Architecture) \o StringBytes(p[1].OS)
            \o StringBytes(p[1].Variant)

DescriptorBytes(d) ==
    <<123, MediaTypeCode(d.MediaType), d.Size, d.Digest>> \o PlatformBytes(d.Platform)
        \o <<125>>

RECURSIVE ManifestsBytesUpto(_, _)
ManifestsBytesUpto(ds, n) ==
    IF n = 0 THEN <<>> ELSE ManifestsBytesUpto(ds, n - 1) \o DescriptorBytes(ds[n])

ManifestsBytes(ds) == ManifestsBytesUpto(ds, Len(ds))

\* json.Marshal of a v1.IndexManifest: the fields in declaration order
json_Marshal(m) ==
    <<123, m.SchemaVersion, MediaTypeCode(m.MediaType), 91>> \o ManifestsBytes(m.Manifests)
        \o <<93>> \o m.Annotations \o <<125>>

\* v1.SHA256 of a byte sequence, as a checksum in which every byte counts with
\* a weight of its position (BagCardinality adds the terms up)
SHA256(b) ==
    IF b = <<>> THEN 7
    ELSE (7 + BagCardinality([i \in 1..Len(b) |->
                1 + ((b[i] * (i * i + 7 * i + 1)) % 32749)])) % 32749

(* ------------------------------------------------------------------ *)
(* State                                                              *)
(* ------------------------------------------------------------------ *)

VARIABLES
    \* CopyImage
    platforms,      \* the platforms argument: the filter tokens, in order
    src,            \* what the source registry serves for the source reference
    dst0,           \* the destination tag before the call
    dst,            \* the destination tag
    pc,             \* the statement CopyImage is at
    idx,            \* the v1.ImageIndex held in idx: <<>> before it is set
    kept,           \* the kept slice
    img,            \* the v1.Image to write: <<>> before it is set
    err,            \* the error CopyImage returns
    pushes,         \* the remote.Write / remote.WriteIndex calls made, in order
    trail,          \* the calls of CopyImage that returned without an error, in order
    \* listTagsCmd.Run
    tags,           \* the tags slice
    lpc,            \* the statement the command is at
    wpc,            \* the statement each worker goroutine is at
    wres,           \* each worker's result, between its fetch and its send
    sem,            \* the tokens held in the sem channel
    wg,             \* the WaitGroup counter
    resultsCh,      \* the results buffered in resultsCh
    closed,         \* whether resultsCh is closed
    cpc,            \* the statement the closing goroutine is at
    detailsMap,     \* detailsMap: the entries (key, val) recorded so far
    arrivals,       \* the index of each result received from resultsCh, in order
    data,           \* the rows handed to ui.RenderTable
    outcomes,       \* what each worker's client.GetTagDetail returned: "none" before
    \* Client.GetTagDetail
    tagChildren,    \* the children of the index the tag names, in index order
    dpc,            \* "call" before GetTagDetail has returned, then "done"
    tagDetail,      \* the TagDetail returned: <<>> before
    \* the worker goroutines of listTagsCmd.Run, counted by statement
    pool,           \* how many workers are at each statement, and the channels
    drain,          \* the closing goroutine and the loop over resultsCh
    \* migrateCmd.Run
    plan,           \* images: the resolved plan
    harborOn,       \* harborClient != nil
    mpc,            \* the statement the command is at
    imgIx,          \* the position in images of the image at hand
    tagsToMigrate,  \* the tags of the image at hand
    tagIx,          \* the position in tagsToMigrate of the tag at hand
    checkedProjects,\* the projects marked in checkedProjects
    ensureCalls,    \* the EnsureProject calls made, in order, with their outcome
    listings,       \* for each image gone through, its tags or the failed listing
    attempts,       \* the (image, tag) of each copy goroutine started, in order
    results,        \* the errors received from errCh, in order
    copies,         \* the goroutines and channels of the tags not yet wound up
    successCount,
    failCount,
    crashed,        \* the process was ended by a panic
    \* harbor.Client.EnsureProject
    serverProjects, \* the names of the projects the Harbor server has
    serverScheme,   \* what the server's port speaks: "http" or "https"
    clients,        \* each caller's Client, its call at hand and its calls so far
    \* the context handed to CopyImage
    cancelledAt,    \* "never", or "call" when ctx was cancelled during the call
    \* migrateCmd.Run up to the loop over the images
    configPath,     \* the --config flag
    cfgFile,        \* what the file at configPath holds
    proxyParses,    \* whether url.Parse accepts the --proxy flag
    rpc,            \* the statement the command is at
    images,         \* images: what cfg.ResolveImages returned
    rIx,            \* the position in images of the image at hand
    netCalls,       \* the calls of network-facing operations made, in order
    exitErr,        \* the error handleError ended the process with
    srcClients,     \* srcClients: for each key, the client cached under it
    clientsMade,    \* the registry.NewClient calls that returned a client, in order
    srcUsed,        \* for each image gone through, the client it was given
    \* sourceConfigForRegistry
    sourceRegistries,\* cfg.SourceRegistries: the entries of the map
    lookups,        \* the calls made: the registryURL and the credentials returned
    \* the transport of a client and the requests sent through it
    proxyURL,       \* the proxyURL argument of NewClient
    noProxy,        \* the noProxy argument of NewClient
    xpc,            \* "new" before NewClient, then "client" or "failed"
    noProxyList,    \* the noProxyList the Proxy function has captured
    routes,         \* for each request sent, its host and what Proxy returned
    \* one tag of migrateCmd.Run with its two goroutines
    feedPlan,       \* for each tag, whether its CopyImage pushes
    fpc,            \* the statement the command is at
    fIx,            \* the position of the tag at hand
    feeds           \* for each tag started: its channels, goroutines and bar

copyVars == <<platforms, src, dst0, dst, pc, idx, kept, img, err, pushes, trail>>

listRunVars == <<tags, lpc, wpc, wres, sem, wg, resultsCh, closed, cpc, detailsMap,
                 arrivals, data, outcomes>>

detailVars == <<tagChildren, dpc, tagDetail>>

listVars == <<listRunVars, detailVars>>

poolVars == <<pool, drain>>

migrateVars == <<plan, harborOn, mpc, imgIx, tagsToMigrate, tagIx, checkedProjects,
                 ensureCalls, listings, attempts, results, copies, successCount,
                 failCount, crashed>>

harborVars == <<serverProjects, serverScheme, clients>>

ctxVars == <<cancelledAt>>

runVars == <<configPath, cfgFile, proxyParses, rpc, images, rIx, netCalls, exitErr,
             srcClients, clientsMade, srcUsed>>

credVars == <<sourceRegistries, lookups>>

resolveVars == <<runVars, credVars>>

proxyVars == <<proxyURL, noProxy, xpc, noProxyList, routes>>

feedVars == <<feedPlan, fpc, fIx, feeds>>

vars == <<copyVars, listVars, poolVars, migrateVars, harborVars, ctxVars,
          resolveVars, proxyVars, feedVars>>

\* the variables of the other operations, which an operation leaves alone
outsideCopy == <<listVars, poolVars, migrateVars, harborVars, resolveVars, proxyVars,
                 feedVars>>

\* what no statement of CopyImage writes: the above, and the ctx it was handed
untouchedByCopy == <<outsideCopy, ctxVars>>

outsideListing == <<copyVars, poolVars, migrateVars, harborVars, ctxVars, resolveVars,
                    proxyVars, feedVars>>

outsideList == <<outsideListing, detailVars>>

outsideDetail == <<outsideListing, listRunVars>>

outsideEnumeration == <<copyVars, listVars, migrateVars, harborVars, ctxVars,
                        resolveVars, proxyVars, feedVars>>

\* what a worker goroutine leaves alone: the above, and the two other goroutines
outsidePool == <<outsideEnumeration, drain>>

outsideMigrate == <<copyVars, listVars, poolVars, harborVars, ctxVars, resolveVars,
                    proxyVars, feedVars>>

outsideHarbor == <<copyVars, listVars, poolVars, migrateVars, ctxVars, resolveVars,
                   proxyVars, feedVars>>

outsideRun == <<copyVars, listVars, poolVars, migrateVars, harborVars, ctxVars,
                proxyVars, feedVars>>

outsideResolve == <<outsideRun, credVars>>

outsideCreds == <<outsideRun, runVars>>

outsideProxy == <<copyVars, listVars, poolVars, migrateVars, harborVars, ctxVars,
                  resolveVars, feedVars>>

outsideFeed == <<copyVars, listVars, poolVars, migrateVars, harborVars, ctxVars,
                 resolveVars, proxyVars>>

(* ------------------------------------------------------------------ *)
(* CopyImage                                                          *)
(* ------------------------------------------------------------------ *)

\* an image some earlier run left under the destination tag
PriorImage ==
    [kind |-> "image", MediaType |-> MT_OCIManifest, Digest |-> 999, Size |-> 42,
     Manifest |-> EmptyManifest]

\* a manifest list on the source registry: the registry's digest and size are
\* those of the bytes it serves
SourceIndex(mt, ps, ann) ==
    LET m == IndexManifestOf(mt, ps, ann)
    IN [MediaType |-> mt, Digest |-> SHA256(json_Marshal(m)),
        Size |-> Len(json_Marshal(m)), Manifest |-> m, Config |-> NoConfig]

\* a single-architecture image on the source registry
SourceImage(p) ==
    [MediaType |-> MT_OCIManifest, Digest |-> 900 + Len(p.Architecture) + Len(p.Variant),
     Size |-> 700, Manifest |-> EmptyManifest,
     Config |-> [OS |-> p.OS, Architecture |-> p.Architecture]]

\* OCI indexes with an annotation, and Docker manifest lists, which are kept one
\* child shorter
SourceIndexes ==
    {SourceIndex(MT_OCIIndex, ps, <<101>>) : ps \in SeqsUpTo(ChildPlatforms, MaxChildren)}
        \cup {SourceIndex(MT_DockerList, ps, <<>>) :
                    ps \in SeqsUpTo(ChildPlatforms, MaxChildren - 1)}

SourceImages == {SourceImage(P_linux_amd64), SourceImage(P_linux_arm64_v8),
                 SourceImage(P_unknown)}

NoError == [kind |-> "nil", op |-> "", filter |-> <<>>, arch |-> <<>>]

\* fmt.Errorf("<op>: %w", err) around a failure of the registry client
WrappedError(op) == [kind |-> "Transport", op |-> op, filter |-> <<>>, arch |-> <<>>]

\* an error of the registry client returned as it is
BareError == [kind |-> "Transport", op |-> "", filter |-> <<>>, arch |-> <<>>]

\* line 334: fmt.Errorf("未找到符合架构 %v 的镜像", platforms)
NoMatchingPlatformError(ps) ==
    [kind |-> "NoMatchingPlatform", op |-> "", filter |-> ps, arch |-> <<>>]

\* line 373: fmt.Errorf("镜像架构 %s 不匹配目标 %v", cfg.Architecture, platforms)
PlatformMismatchError(arch, ps) ==
    [kind |-> "PlatformMismatch", op |-> "", filter |-> ps, arch |-> arch]

\* a mistaken guard: the filter branch is never taken
ShouldFilter_Never(ps) == FALSE

\* a mistaken guard: the filter branch is taken for an empty filter too
ShouldFilter_Always(ps) == TRUE

\* len(platforms) > 0, lines 314 and 362
ShouldFilter(ps) == Len(ps) > 0

\* line 326: the test of one manifest against one filter token
PlatformMatches(plat, p) ==
    \/ strings_Contains(plat.Architecture, p)
    \/ strings_Contains(Sprintf_slash(plat.OS, plat.Architecture), p)

\* a mistaken inner loop that tries the first token only
AnyTokenMatches_FirstOnly(plat, ps) == ps # <<>> /\ PlatformMatches(plat, Head(ps))

\* lines 325-330: the inner loop, which stops at the first matching token
RECURSIVE AnyTokenMatches(_, _)
AnyTokenMatches(plat, ps) ==
    IF ps = <<>> THEN FALSE
    ELSE IF PlatformMatches(plat, Head(ps)) THEN TRUE
    ELSE AnyTokenMatches(plat, Tail(ps))

\* a mistaken inner loop without its break: one append per matching token
RECURSIVE AppendPerToken(_, _)
AppendPerToken(m, ps) ==
    IF ps = <<>> THEN <<>>
    ELSE (IF PlatformMatches(m.Platform[1], Head(ps)) THEN <<m>> ELSE <<>>)
            \o AppendPerToken(m, Tail(ps))

RECURSIVE KeepLoop_NoBreak(_, _)
KeepLoop_NoBreak(manifests, ps) ==
    IF manifests = <<>> THEN <<>>
    ELSE LET m == Head(manifests)
         IN IF m.Platform = <<>> THEN KeepLoop_NoBreak(Tail(manifests), ps)
            ELSE AppendPerToken(m, ps) \o KeepLoop_NoBreak(Tail(manifests), ps)

\* a mistaken loop that takes a manifest without a platform for linux/amd64
RECURSIVE KeepLoop_NilAsDefault(_, _)
KeepLoop_NilAsDefault(manifests, ps) ==
    IF manifests = <<>> THEN <<>>
    ELSE LET m == Head(manifests)
             plat == IF m.Platform = <<>> THEN P_linux_amd64 ELSE m.Platform[1]
         IN IF AnyTokenMatches(plat, ps)
            THEN <<m>> \o KeepLoop_NilAsDefault(Tail(manifests), ps)
            ELSE KeepLoop_NilAsDefault(Tail(manifests), ps)

\* lines 320-331: the loop over manifest.Manifests that builds kept
RECURSIVE KeepLoop(_, _)
KeepLoop(manifests, ps) ==
    IF manifests = <<>> THEN <<>>
    ELSE LET m == Head(manifests)
         IN IF m.Platform = <<>> THEN KeepLoop(Tail(manifests), ps)
            ELSE IF AnyTokenMatches(m.Platform[1], ps)
                 THEN <<m>> \o KeepLoop(Tail(manifests), ps)
                 ELSE KeepLoop(Tail(manifests), ps)

\* a mistaken branch: one kept manifest is wrapped in an index like several
FilterOutcome_NoSingle(k) == IF Len(k) = 0 THEN "nomatch" ELSE "filtered"

\* a mistaken branch: an empty kept is not an error
FilterOutcome_NoEmptyCheck(k) == IF Len(k) = 1 THEN "single" ELSE "filtered"

\* lines 333-349: what CopyImage does with kept
FilterOutcome(k) ==
    IF Len(k) = 0 THEN "nomatch" ELSE IF Len(k) = 1 THEN "single" ELSE "filtered"

\* the index remote.Get's descriptor resolves to (desc.ImageIndex)
RemoteIndex(s) == [filtered |-> FALSE, inner |-> s, kept |-> <<>>]

\* lines 346-349: &filteredIndex{inner: idx, kept: kept}
NewFilteredIndex(i, k) == [filtered |-> TRUE, inner |-> i.inner, kept |-> k]

\* filteredIndex.MediaType
filteredIndex_MediaType(f) == f.inner.MediaType

\* filteredIndex.IndexManifest
filteredIndex_IndexManifest(f) ==
    [SchemaVersion |-> f.inner.Manifest.SchemaVersion,
     MediaType |-> f.inner.Manifest.MediaType,
     Manifests |-> f.kept,
     Annotations |-> f.inner.Manifest.Annotations]

\* filteredIndex.RawManifest
filteredIndex_RawManifest(f) == json_Marshal(filteredIndex_IndexManifest(f))

\* a mistaken Digest that answers with the digest of the wrapped index
filteredIndex_Digest_Inner(f) == f.inner.Digest

\* filteredIndex.Digest
filteredIndex_Digest(f) == SHA256(filteredIndex_RawManifest(f))

\* filteredIndex.Size
filteredIndex_Size(f) == Len(filteredIndex_RawManifest(f))

\* the v1.ImageIndex methods remote.WriteIndex calls on its argument
ImageIndex_MediaType(i) == IF i.filtered THEN filteredIndex_MediaType(i) ELSE i.inner.MediaType
ImageIndex_IndexManifest(i) ==
    IF i.filtered THEN filteredIndex_IndexManifest(i) ELSE i.inner.Manifest
ImageIndex_Digest(i) == IF i.filtered THEN filteredIndex_Digest(i) ELSE i.inner.Digest
ImageIndex_Size(i) == IF i.filtered THEN filteredIndex_Size(i) ELSE i.inner.Size

\* what remote.WriteIndex puts under the destination tag
IndexObject(i) ==
    [kind |-> "index", MediaType |-> ImageIndex_MediaType(i),
     Digest |-> ImageIndex_Digest(i), Size |-> ImageIndex_Size(i),
     Manifest |-> ImageIndex_IndexManifest(i)]

\* what remote.Write puts under the destination tag
ImageObject(digest, size) ==
    [kind |-> "image", MediaType |-> MT_OCIManifest, Digest |-> digest, Size |-> size,
     Manifest |-> EmptyManifest]

\* return err
Return(e) == pc' = "done" /\ err' = e

\* handleError was not handed an error
NotExited == [what |-> "", line |-> 0]

\* migrateCmd.Run before it is run
RunIdle ==
    /\ configPath = <<>>
    /\ cfgFile = <<>>
    /\ proxyParses = TRUE
    /\ rpc = "idle"
    /\ images = <<>>
    /\ rIx = 0
    /\ netCalls = <<>>
    /\ exitErr = NotExited
    /\ srcClients = {}
    /\ clientsMade = <<>>
    /\ srcUsed = <<>>

\* sourceConfigForRegistry not called
CredsIdle ==
    /\ sourceRegistries = {}
    /\ lookups = <<>>

ResolveIdle == RunIdle /\ CredsIdle

\* no client made
ProxyIdle ==
    /\ proxyURL = <<>>
    /\ noProxy = <<>>
    /\ xpc = "idle"
    /\ noProxyList = <<>>
    /\ routes = <<>>

\* no tag started
FeedIdle ==
    /\ feedPlan = <<>>
    /\ fpc = "idle"
    /\ fIx = 0
    /\ feeds = <<>>

\* CopyImage not called: its context is not cancelled
CtxIdle == cancelledAt = "never"

\* lines 115-127: resultsCh not closed, nothing received, the loop not ended
DrainStart == [closed |-> FALSE, received |-> 0, lpc |-> "range"]

\* list-tags before it is run
PoolIdle == pool = <<>> /\ drain = DrainStart

HarborIdle ==
    /\ serverProjects = {}
    /\ serverScheme = "https"
    /\ clients = <<>>

MigrateIdle ==
    /\ plan = <<>>
    /\ harborOn = FALSE
    /\ mpc = "idle"
    /\ imgIx = 0
    /\ tagsToMigrate = <<>>
    /\ tagIx = 0
    /\ checkedProjects = {}
    /\ ensureCalls = <<>>
    /\ listings = <<>>
    /\ attempts = <<>>
    /\ results = <<>>
    /\ copies = <<>>
    /\ successCount = 0
    /\ failCount = 0
    /\ crashed = FALSE

\* list-tags not run
ListRunIdle ==
    /\ tags = <<>>
    /\ lpc = "idle"
    /\ wpc = <<>>
    /\ wres = <<>>
    /\ sem = 0
    /\ wg = 0
    /\ resultsCh = <<>>
    /\ closed = FALSE
    /\ cpc = "idle"
    /\ detailsMap = {}
    /\ arrivals = <<>>
    /\ data = <<>>
    /\ outcomes = <<>>

\* GetTagDetail not called
DetailIdle ==
    /\ tagChildren = <<>>
    /\ dpc = "idle"
    /\ tagDetail = <<>>

ListIdle == ListRunIdle /\ DetailIdle

InitCopy ==
    /\ ListIdle
    /\ PoolIdle
    /\ MigrateIdle
    /\ HarborIdle
    /\ ResolveIdle
    /\ ProxyIdle
    /\ FeedIdle
    /\ CtxIdle
    /\ platforms \in SeqsUpTo(FilterTokens, MaxFilter)
    /\ src \in SourceIndexes \cup SourceImages
    /\ dst0 = PriorImage
    /\ dst = dst0
    /\ pc = "parse"
    /\ idx = <<>>
    /\ kept = <<>>
    /\ img = <<>>
    /\ err = NoError
    /\ pushes = <<>>
    /\ trail = <<>>

\* lines 285-296: name.ParseReference of the source and destination references
ParseReferences ==
    /\ pc = "parse"
    /\ \/ Return(WrappedError("parse source reference")) /\ trail' = trail
       \/ Return(WrappedError("parse destination reference")) /\ trail' = trail
       \/ pc' = "get" /\ err' = err /\ trail' = Append(trail, "name.ParseReference")
    /\ UNCHANGED <<platforms, src, dst0, dst, idx, kept, img, pushes, untouchedByCopy>>

\* lines 298-308: remote.Get, then the branch on desc.MediaType.IsIndex()
RemoteGet ==
    /\ pc = "get"
    /\ \/ Return(WrappedError("fetch manifest")) /\ trail' = trail
       \/ /\ pc' = (IF IsIndex(src.MediaType) THEN "index" ELSE "image")
          /\ err' = err
          /\ trail' = Append(trail, "remote.Get")
    /\ UNCHANGED <<platforms, src, dst0, dst, idx, kept, img, pushes, untouchedByCopy>>

\* lines 309-314: desc.ImageIndex()
DescImageIndex ==
    /\ pc = "index"
    /\ \/ Return(WrappedError("parse index")) /\ idx' = idx /\ trail' = trail
       \/ /\ idx' = <<RemoteIndex(src)>>
          /\ trail' = Append(trail, "desc.ImageIndex")
          /\ pc' = (IF ShouldFilter(platforms) THEN "filter" ELSE "writeIndex")
          /\ err' = err
    /\ UNCHANGED <<platforms, src, dst0, dst, kept, img, pushes, untouchedByCopy>>

\* lines 315-350: idx.IndexManifest(), the filter loop and the branch on len(kept)
FilterIndex ==
    /\ pc = "filter"
    /\ \/ Return(BareError) /\ UNCHANGED <<idx, kept, trail>>
       \/ LET k == KeepLoop(ImageIndex_IndexManifest(idx[1]).Manifests, platforms)
          IN /\ kept' = k
             /\ trail' = Append(trail, "filter")
             /\ CASE FilterOutcome(k) = "nomatch" ->
                        Return(NoMatchingPlatformError(platforms)) /\ idx' = idx
                  [] FilterOutcome(k) = "single" ->
                        pc' = "childImage" /\ err' = err /\ idx' = idx
                  [] OTHER ->
                        /\ idx' = <<NewFilteredIndex(idx[1], k)>>
                        /\ pc' = "writeIndex"
                        /\ err' = err
    /\ UNCHANGED <<platforms, src, dst0, dst, img, pushes, untouchedByCopy>>

\* lines 338-341: idx.Image(kept[0].Digest)
ResolveChild ==
    /\ pc = "childImage"
    /\ \/ Return(BareError) /\ img' = img /\ trail' = trail
       \/ /\ img' = <<ImageObject(kept[1].Digest, kept[1].Size)>>
          /\ trail' = Append(trail, "idx.Image")
          /\ pc' = "writeChild"
          /\ err' = err
    /\ UNCHANGED <<platforms, src, dst0, dst, idx, kept, pushes, untouchedByCopy>>

\* line 342: return remote.Write(dstRef, childImg, writeOpts...)
WriteChild ==
    /\ pc = "writeChild"
    /\ \E ok \in BOOLEAN :
        /\ pushes' = Append(pushes, [op |-> "writeImage", ok |-> ok, obj |-> img[1]])
        /\ dst' = IF ok THEN img[1] ELSE dst
        /\ Return(IF ok THEN NoError ELSE BareError)
        /\ trail' = IF ok THEN Append(trail, "remote.Write") ELSE trail
    /\ UNCHANGED <<platforms, src, dst0, idx, kept, img, untouchedByCopy>>

\* lines 352-355: remote.WriteIndex(dstRef, idx, writeOpts...)
WriteIndex ==
    /\ pc = "writeIndex"
    /\ \E ok \in BOOLEAN :
        /\ pushes' = Append(pushes, [op |-> "writeIndex", ok |-> ok,
                                     obj |-> IndexObject(idx[1])])
        /\ dst' = IF ok THEN IndexObject(idx[1]) ELSE dst
        /\ Return(IF ok THEN NoError ELSE WrappedError("push index"))
        /\ trail' = IF ok THEN Append(trail, "remote.WriteIndex") ELSE trail
    /\ UNCHANGED <<platforms, src, dst0, idx, kept, img, untouchedByCopy>>

\* lines 357-362: desc.Image()
DescImage ==
    /\ pc = "image"
    /\ \/ Return(WrappedError("parse image")) /\ img' = img /\ trail' = trail
       \/ /\ img' = <<ImageObject(src.Digest, src.Size)>>
          /\ trail' = Append(trail, "desc.Image")
          /\ pc' = (IF ShouldFilter(platforms) THEN "checkArch" ELSE "writeImage")
          /\ err' = err
    /\ UNCHANGED <<platforms, src, dst0, dst, idx, kept, pushes, untouchedByCopy>>

\* lines 365-371: the loop over platforms on cfg.Architecture
RECURSIVE ArchMatched(_, _)
ArchMatched(arch, ps) ==
    IF ps = <<>> THEN FALSE
    ELSE IF strings_Contains(arch, Head(ps)) THEN TRUE
    ELSE ArchMatched(arch, Tail(ps))

\* lines 363-376: img.ConfigFile() and the architecture check, which is skipped
\* when ConfigFile returns an error
CheckArch ==
    /\ pc = "checkArch"
    /\ \/ pc' = "writeImage" /\ err' = err /\ trail' = trail
       \/ /\ trail' = Append(trail, "img.ConfigFile")
          /\ IF ArchMatched(src.Config.Architecture, platforms)
             THEN pc' = "writeImage" /\ err' = err
             ELSE Return(PlatformMismatchError(src.Config.Architecture, platforms))
    /\ UNCHANGED <<platforms, src, dst0, dst, idx, kept, img, pushes, untouchedByCopy>>

\* lines 378-381: remote.Write(dstRef, img, writeOpts...)
WriteImage ==
    /\ pc = "writeImage"
    /\ \E ok \in BOOLEAN :
        /\ pushes' = Append(pushes, [op |-> "writeImage", ok |-> ok, obj |-> img[1]])
        /\ dst' = IF ok THEN img[1] ELSE dst
        /\ Return(IF ok THEN NoError ELSE WrappedError("push image"))
        /\ trail' = IF ok THEN Append(trail, "remote.Write") ELSE trail
    /\ UNCHANGED <<platforms, src, dst0, idx, kept, img, untouchedByCopy>>

\* the statements of CopyImage that read from or write to a registry
NetworkStatements == {"get", "writeChild", "writeIndex", "writeImage"}

\* the caller cancels ctx when CopyImage has not made a request yet, or while
\* a request is in flight. No statement of CopyImage reads ctx: lines 298,
\* 342, 352 and 378 hand remote.Get, remote.Write and remote.WriteIndex the
\* options of GetOptions (lines 156-161), the authenticator and the transport
CancelContext ==
    /\ cancelledAt = "never"
    /\ pc \in {"parse"} \cup NetworkStatements
    /\ cancelledAt' = "call"
    /\ UNCHANGED <<copyVars, outsideCopy>>

NextCopy ==
    \/ ParseReferences
    \/ RemoteGet
    \/ DescImageIndex
    \/ FilterIndex
    \/ ResolveChild
    \/ WriteChild
    \/ WriteIndex
    \/ DescImage
    \/ CheckArch
    \/ WriteImage
    \/ CancelContext

SpecCopy == InitCopy /\ [][NextCopy]_vars

(* ------------------------------------------------------------------ *)
(* What the claims about CopyImage speak of                           *)
(* ------------------------------------------------------------------ *)

\* tok occurs in s: at some offset, every character of tok is the one of s
IsSubstringOf(tok, s) ==
    \E i \in 0..(Len(s) - Len(tok)) : \A k \in 1..Len(tok) : s[i + k] = tok[k]

\* the substring rule for one token and one platform
TokenMatchesPlatform(tok, p) ==
    \/ IsSubstringOf(tok, p.Architecture)
    \/ IsSubstringOf(tok, p.OS \o <<"/">> \o p.Architecture)

\* the child d has a platform that some token of the filter f matches
ChildMatches(d, f) ==
    /\ d.Platform # <<>>
    /\ \E k \in 1..Len(f) : TokenMatchesPlatform(f[k], d.Platform[1])

\* the children of the source index that match the filter, in source order
ExpectedKept == SelectSeq(src.Manifest.Manifests, LAMBDA d : ChildMatches(d, platforms))

InTrail(step) == \E i \in 1..Len(trail) : trail[i] = step

\* the filter loop of this call has run over the children
FilterEvaluated == InTrail("filter")

SourceIsIndex == src.MediaType \in {MT_OCIIndex, MT_DockerList}

FilterGiven == platforms # <<>>

\* the source index as remote.WriteIndex puts it when nothing is filtered
SourceIndexObject ==
    [kind |-> "index", MediaType |-> src.MediaType, Digest |-> src.Digest,
     Size |-> src.Size, Manifest |-> src.Manifest]

\* the manifest a filtered index must serialize
ExpectedFilteredManifest ==
    [SchemaVersion |-> src.Manifest.SchemaVersion,
     MediaType |-> src.Manifest.MediaType,
     Manifests |-> ExpectedKept,
     Annotations |-> src.Manifest.Annotations]

Pushed(op) == \E i \in 1..Len(pushes) : pushes[i].op = op

(* C1: for every source index and every non-empty filter, once the filter
   loop has run, kept is exactly the children whose platform matches a token,
   each once and in source order; and an index pushed for two or more kept
   children lists exactly those descriptors. *)
C1_KeptIsExactlyTheMatches ==
    (SourceIsIndex /\ FilterGiven /\ FilterEvaluated) =>
        LET expected == ExpectedKept
        IN /\ kept = expected
           /\ \A i, j \in 1..Len(kept) : kept[i].Digest = kept[j].Digest => i = j
           /\ \A i \in 1..Len(pushes) :
                 pushes[i].op = "writeIndex" =>
                     /\ Len(expected) >= 2
                     /\ pushes[i].obj.Manifest.Manifests = expected

\* a filtered index of two children was pushed, and a third child was dropped
C1_Witness ==
    /\ pc = "done" /\ err = NoError
    /\ FilterGiven /\ FilterEvaluated
    /\ Len(platforms) = 2
    /\ Len(kept) = 2 /\ Len(src.Manifest.Manifests) = 3
    /\ dst.kind = "index" /\ dst.Manifest.Manifests = kept

(* C2: when an index is copied with a non-empty filter and exactly one child
   matches, every push of the call is a writeImage of that child, a call that
   returns no error has made exactly one such push and left the child under
   the destination tag, and no writeIndex is made. *)
C2_SingleMatchPushesImage ==
    (SourceIsIndex /\ FilterGiven) =>
        LET expected == ExpectedKept
        IN Len(expected) = 1 =>
              /\ ~Pushed("writeIndex")
              /\ \A i \in 1..Len(pushes) :
                    /\ pushes[i].op = "writeImage"
                    /\ pushes[i].obj.kind = "image"
                    /\ pushes[i].obj.Digest = expected[1].Digest
              /\ (pc = "done" /\ err = NoError) =>
                    /\ Len(pushes) = 1
                    /\ dst.kind = "image"
                    /\ dst.Digest = expected[1].Digest

\* one child of three matched and was pushed as an image
C2_Witness ==
    /\ pc = "done" /\ err = NoError
    /\ SourceIsIndex /\ FilterGiven
    /\ Len(src.Manifest.Manifests) = 3
    /\ Len(kept) = 1
    /\ pushes = <<[op |-> "writeImage", ok |-> TRUE, obj |-> dst]>>
    /\ dst.Digest = kept[1].Digest

(* C3: when an index is copied with a non-empty filter and no child matches,
   nothing is ever pushed, and once the filter loop has run the call has
   returned a NoMatchingPlatform error that names the filter, with the
   destination as it was. *)
C3_NoMatchIsAnError ==
    (SourceIsIndex /\ FilterGiven /\ ExpectedKept = <<>>) =>
        /\ pushes = <<>>
        /\ dst = dst0
        /\ FilterEvaluated =>
              /\ pc = "done"
              /\ err.kind = "NoMatchingPlatform"
              /\ err.filter = platforms
        /\ pc = "done" => err # NoError

\* an index of children with platforms, none of which the filter matches
C3_Witness ==
    /\ pc = "done"
    /\ err.kind = "NoMatchingPlatform"
    /\ err.filter = platforms
    /\ Len(platforms) = 2
    /\ Len(src.Manifest.Manifests) >= 2
    /\ \A i \in 1..Len(src.Manifest.Manifests) : src.Manifest.Manifests[i].Platform # <<>>

\* what the one push of a call must carry
IntendedObject ==
    IF SourceIsIndex
    THEN IF ~FilterGiven THEN SourceIndexObject
         ELSE LET expected == ExpectedKept
              IN IF Len(expected) = 1
                 THEN ImageObject(expected[1].Digest, expected[1].Size)
                 ELSE LET m == [SchemaVersion |-> src.Manifest.SchemaVersion,
                                MediaType |-> src.Manifest.MediaType,
                                Manifests |-> expected,
                                Annotations |-> src.Manifest.Annotations]
                          raw == json_Marshal(m)
                      IN [kind |-> "index", MediaType |-> src.MediaType,
                          Digest |-> SHA256(raw), Size |-> Len(raw), Manifest |-> m]
    ELSE ImageObject(src.Digest, src.Size)

(* C4: a call makes at most one push; the push comes after remote.Get
   resolved the source and, for a filtered index, after the filter loop ran
   over the children; it carries the whole intended object; the call returns
   with it; and as long as no push succeeded the destination is as before. *)
C4_NoPartialIndex ==
    /\ Len(pushes) <= 1
    /\ pushes # <<>> =>
          LET intended == IntendedObject
          IN /\ InTrail("remote.Get")
             /\ (SourceIsIndex /\ FilterGiven) =>
                   /\ FilterEvaluated
                   /\ intended.kind = "index" => Len(intended.Manifest.Manifests) >= 2
             /\ pushes[1].obj = intended
             /\ pc = "done"
             /\ dst = IF pushes[1].ok THEN intended ELSE dst0
    /\ pushes = <<>> => dst = dst0

\* a filtered index whose push failed: the destination tag is as before
C4_Witness ==
    /\ pc = "done"
    /\ Len(pushes) = 1 /\ ~pushes[1].ok
    /\ pushes[1].op = "writeIndex"
    /\ FilterGiven /\ Len(kept) >= 2
    /\ dst = dst0
    /\ err = WrappedError("push index")

(* C5: with an empty filter an index is pushed as it is: the filter loop
   never runs, kept stays empty, every push is a writeIndex of the source
   index with all its children, and a call that returns no error leaves the
   source index under the destination tag. *)
C5_EmptyFilterPushesUnmodified ==
    (SourceIsIndex /\ ~FilterGiven) =>
        /\ ~FilterEvaluated
        /\ kept = <<>>
        /\ \A i \in 1..Len(pushes) :
              /\ pushes[i].op = "writeIndex"
              /\ pushes[i].obj = SourceIndexObject
        /\ (pc = "done" /\ err = NoError) =>
              /\ Len(pushes) = 1
              /\ dst = SourceIndexObject
        /\ err.kind \notin {"NoMatchingPlatform", "PlatformMismatch"}

\* an index of three children, one without a platform, pushed whole
C5_Witness ==
    /\ pc = "done" /\ err = NoError
    /\ platforms = <<>>
    /\ dst.kind = "index"
    /\ Len(dst.Manifest.Manifests) = 3
    /\ \E i \in 1..3 : dst.Manifest.Manifests[i].Platform = <<>>
    /\ \E i \in 1..3 : dst.Manifest.Manifests[i].Platform = <<P_linux_arm64_v8>>

(* C6: when the source is a single image and the filter is non-empty and no
   token is a substring of the image's declared architecture, the call makes
   no push and returns with an error. *)
C6_SingleImageMustMatch ==
    (/\ ~SourceIsIndex
     /\ FilterGiven
     /\ \A k \in 1..Len(platforms) : ~IsSubstringOf(platforms[k], src.Config.Architecture)) =>
        /\ pushes = <<>>
        /\ pc = "done" => err # NoError

(* C7: once the filter loop has run, a child with a platform is kept if and
   only if some token is a substring of its architecture or of its os/arch
   string; so arm64 keeps linux/arm64/v8, linux/amd64 keeps only the children
   whose os/arch string contains it, and 64 keeps amd64 and arm64 alike. *)
C7_SubstringRule ==
    (SourceIsIndex /\ FilterGiven /\ FilterEvaluated) =>
        \A i \in 1..Len(src.Manifest.Manifests) :
            LET d == src.Manifest.Manifests[i]
                isKept == \E j \in 1..Len(kept) : kept[j] = d
            IN d.Platform # <<>> =>
                /\ isKept <=> \E k \in 1..Len(platforms) :
                                  TokenMatchesPlatform(platforms[k], d.Platform[1])
                /\ (platforms = <<S_arm64>> /\ d.Platform[1] = P_linux_arm64_v8) => isKept
                /\ (platforms = <<S_arm64>> /\ d.Platform[1] = P_linux_amd64) => ~isKept
                /\ platforms = <<S_linux_amd64>> =>
                      (isKept <=> d.Platform[1] = P_linux_amd64)
                /\ platforms = <<S_64>> =>
                      (d.Platform[1] \in {P_linux_amd64, P_linux_arm64_v8} => isKept)

\* the one token 64 kept an amd64 child and an arm64 child
C7_Witness ==
    /\ FilterEvaluated
    /\ platforms = <<S_64>>
    /\ \E i, j \in 1..Len(kept) :
          /\ kept[i].Platform = <<P_linux_amd64>>
          /\ kept[j].Platform = <<P_linux_arm64_v8>>

(* C8, as stated: no kept descriptor lacks a platform and none has the
   architecture unknown, whatever the filter. *)
C8_UnknownNeverRetained ==
    \A i \in 1..Len(kept) :
        /\ kept[i].Platform # <<>>
        /\ kept[i].Platform[1].Architecture # S_unknown

(* C8, amended: no kept descriptor lacks a platform, whatever the filter; a
   child whose architecture is unknown is kept exactly when some token is a
   substring of unknown or of its os/arch string, so a filter of other
   architectures never keeps it. *)
C8_UnknownOnlyBySubstring ==
    /\ \A i \in 1..Len(kept) : kept[i].Platform # <<>>
    /\ (SourceIsIndex /\ FilterGiven /\ FilterEvaluated) =>
          \A i \in 1..Len(src.Manifest.Manifests) :
              LET d == src.Manifest.Manifests[i]
              IN (d.Platform # <<>> /\ d.Platform[1].Architecture = S_unknown) =>
                    ((\E j \in 1..Len(kept) : kept[j] = d) <=>
                        \E k \in 1..Len(platforms) :
                            \/ IsSubstringOf(platforms[k], S_unknown)
                            \/ IsSubstringOf(platforms[k], d.Platform[1].OS \o <<"/">> \o S_unknown))

\* linux/amd64 is kept from an index that also lists a child without a platform
\* and a child of unknown architecture
C8_Witness ==
    /\ FilterEvaluated
    /\ platforms = <<S_linux_amd64>>
    /\ Len(kept) = 1 /\ kept[1].Platform = <<P_linux_amd64>>
    /\ \E i \in 1..Len(src.Manifest.Manifests) : src.Manifest.Manifests[i].Platform = <<>>
    /\ \E i \in 1..Len(src.Manifest.Manifests) :
          src.Manifest.Manifests[i].Platform = <<P_unknown>>

(* C9: a filtered index serializes the source's schema version, media type
   and annotations with the kept descriptors as its list; its digest is the
   hash and its size the length of that serialization; it is pushed as such;
   and the index it wraps is still the source index. *)
C9_FilteredIndexSelfConsistent ==
    (idx # <<>> /\ idx[1].filtered) =>
        LET f == idx[1]
            m == ExpectedFilteredManifest
            raw == json_Marshal(m)
        IN /\ f.kept = m.Manifests
           /\ f.inner = src
           /\ \A i \in 1..Len(pushes) :
                 /\ pushes[i].op = "writeIndex"
                 /\ pushes[i].obj.Manifest = m
                 /\ pushes[i].obj.Digest = SHA256(raw)
                 /\ pushes[i].obj.Size = Len(raw)
                 /\ pushes[i].obj.MediaType = src.MediaType

\* a pushed filtered index that lists fewer children than its source and so
\* has another digest and size
C9_Witness ==
    /\ pc = "done" /\ err = NoError
    /\ idx # <<>> /\ idx[1].filtered
    /\ dst.kind = "index"
    /\ Len(dst.Manifest.Manifests) < Len(src.Manifest.Manifests)
    /\ dst.Digest # src.Digest
    /\ dst.Size < src.Size
    /\ dst.Manifest.Annotations = <<101>>

(* ------------------------------------------------------------------ *)
(* listTagsCmd.Run: the tags of a repository and their details        *)
(* ------------------------------------------------------------------ *)

\* sem := make(chan struct{}, 10)
SemCapacity == 10

\* a wg.Wait() that returns at once
wg_Wait_Returns_Early(counter) == TRUE

\* wg.Wait() returns when the counter is zero
wg_Wait_Returns(counter) == counter = 0

\* a sem that never blocks a send
sem_CanSend_Unbounded(held) == TRUE

\* a send on sem goes through while the channel holds fewer than its capacity
sem_CanSend(held) == held < SemCapacity

S_latest == <<"l", "a", "t", "e", "s", "t">>

\* the tag names a repository may list
TagNames == {<<"b">>, <<"a", "b">>, S_latest}

\* what a registry may answer to a tags list request: the names in any order, a
\* name at most twice
TagLists ==
    {ts \in SeqsUpTo(TagNames, MaxTags) :
        \A t \in TagNames : Cardinality({i \in 1..Len(ts) : ts[i] = t}) <= 2}

\* a < b for Go strings: byte-wise lexicographic order
StringLess(a, b) ==
    LET n == IF Len(a) < Len(b) THEN Len(a) ELSE Len(b)
        diffs == {i \in 1..n : a[i] # b[i]}
    IN  IF diffs = {} THEN Len(a) < Len(b)
        ELSE LET i == CHOOSE j \in diffs : \A k \in diffs : j <= k
             IN  CharCode[a[i]] < CharCode[b[i]]

\* t put into the sorted slice at its place
RECURSIVE InsertSorted(_, _)
InsertSorted(t, sorted) ==
    IF sorted = <<>> THEN <<t>>
    ELSE IF StringLess(t, Head(sorted)) THEN <<t>> \o sorted
    ELSE <<Head(sorted)>> \o InsertSorted(t, Tail(sorted))

\* sort.Strings(tags): the same strings in increasing order
RECURSIVE sort_Strings(_)
sort_Strings(ts) ==
    IF ts = <<>> THEN <<>> ELSE InsertSorted(Head(ts), sort_Strings(Tail(ts)))

\* registry.TagDetail, by the fields a row is made of
TagDetail(name, digest, size) == [Name |-> name, Digest |-> digest, Size |-> size]

\* the detail GetTagDetail returns for a tag the registry serves
RemoteTagDetail(t) ==
    TagDetail(t, SHA256(StringBytes(t)), 1000 + SHA256(StringBytes(t)))

\* &registry.TagDetail{Name: tags[res.index]}
NameOnlyDetail(t) == TagDetail(t, 0, 0)

\* result{index: idx, info: info, err: err}: info is <<>> for nil, err is TRUE
\* for a non-nil error
Result(index, info, e) == [index |-> index, info |-> info, err |-> e]

NoResult == Result(0, <<>>, FALSE)

\* what a worker holds after client.GetTagDetail(ctx, repoName, t) returned
WorkerResult(index, t, ok) ==
    IF ok THEN Result(index, <<RemoteTagDetail(t)>>, FALSE)
    ELSE Result(index, <<>>, TRUE)

\* a key that every result would be recorded under were the index ignored
ResultKey_Head(ts, res) == ts[1]

\* tags[res.index]
ResultKey(ts, res) == ts[res.index + 1]

\* m[k] = v
MapPut(m, k, v) == {e \in m : e.key # k} \cup {[key |-> k, val |-> v]}

MapHas(m, k) == \E e \in m : e.key = k

\* m[k] of a key that is present
MapGet(m, k) == (CHOOSE e \in m : e.key = k).val

\* a loop over resultsCh that records the results without an error only
RecordResult_DropFailed(m, ts, res) ==
    IF ~res.err THEN MapPut(m, ResultKey(ts, res), res.info[1]) ELSE m

\* the body of the loop over resultsCh
RecordResult(m, ts, res) ==
    IF ~res.err THEN MapPut(m, ResultKey(ts, res), res.info[1])
    ELSE MapPut(m, ResultKey(ts, res), NameOnlyDetail(ResultKey(ts, res)))

\* displayName
DisplayName(tag) ==
    IF tag = S_latest THEN tag \o <<" ", "(", "*", ")">> ELSE tag

\* one row of data, by the values its columns are formatted from
Row(i, tag, info) == [No |-> i + 1, Tag |-> DisplayName(tag), Size |-> info.Size]

\* data after the first n tags
RECURSIVE Rows(_, _, _)
Rows(ts, m, n) ==
    IF n = 0 THEN <<>>
    ELSE Append(Rows(ts, m, n - 1), Row(n - 1, ts[n], MapGet(m, ts[n])))

CopyIdle ==
    /\ platforms = <<>>
    /\ src = PriorImage
    /\ dst0 = PriorImage
    /\ dst = PriorImage
    /\ pc = "idle"
    /\ idx = <<>>
    /\ kept = <<>>
    /\ img = <<>>
    /\ err = NoError
    /\ pushes = <<>>
    /\ trail = <<>>
    /\ CtxIdle

InitList ==
    /\ CopyIdle
    /\ PoolIdle
    /\ MigrateIdle
    /\ HarborIdle
    /\ ResolveIdle
    /\ ProxyIdle
    /\ FeedIdle
    /\ DetailIdle
    /\ tags = <<>>
    /\ lpc = "list"
    /\ wpc = <<>>
    /\ wres = <<>>
    /\ sem = 0
    /\ wg = 0
    /\ resultsCh = <<>>
    /\ closed = FALSE
    /\ cpc = "idle"
    /\ detailsMap = {}
    /\ arrivals = <<>>
    /\ data = <<>>
    /\ outcomes = <<>>

\* lines 81-82: client.ListTags; handleError leaves the program on an error
ListTags ==
    /\ lpc = "list"
    /\ \/ /\ \E ts \in TagLists : tags' = ts
          /\ lpc' = "sort"
       \/ /\ lpc' = "exit"
          /\ tags' = tags
    /\ UNCHANGED <<wpc, wres, sem, wg, resultsCh, closed, cpc, detailsMap, arrivals,
                   data, outcomes, outsideList>>

\* lines 84-100: no tags ends the command; otherwise the slice is sorted in place
SortTags ==
    /\ lpc = "sort"
    /\ IF Len(tags) = 0
       THEN lpc' = "done" /\ tags' = tags
       ELSE lpc' = "spawn" /\ tags' = sort_Strings(tags)
    /\ UNCHANGED <<wpc, wres, sem, wg, resultsCh, closed, cpc, detailsMap, arrivals,
                   data, outcomes, outsideList>>

\* lines 103-113: wg.Add(1) and the go statement for the next tag
Spawn ==
    /\ lpc = "spawn"
    /\ Len(wpc) < Len(tags)
    /\ wg' = wg + 1
    /\ wpc' = Append(wpc, "acquire")
    /\ wres' = Append(wres, NoResult)
    /\ outcomes' = Append(outcomes, "none")
    /\ UNCHANGED <<tags, lpc, sem, resultsCh, closed, cpc, detailsMap, arrivals, data,
                   outsideList>>

\* lines 115-118: the go statement of the closing goroutine
StartCloser ==
    /\ lpc = "spawn"
    /\ Len(wpc) = Len(tags)
    /\ cpc' = "wait"
    /\ lpc' = "receive"
    /\ UNCHANGED <<tags, wpc, wres, sem, wg, resultsCh, closed, detailsMap, arrivals,
                   data, outcomes, outsideList>>

\* line 107: sem <- struct{}{} blocks while the channel is full
WorkerAcquire(i) ==
    /\ wpc[i] = "acquire"
    /\ sem_CanSend(sem)
    /\ sem' = sem + 1
    /\ wpc' = [wpc EXCEPT ![i] = "fetch"]
    /\ UNCHANGED <<tags, lpc, wres, wg, resultsCh, closed, cpc, detailsMap, arrivals,
                   data, outcomes, outsideList>>

\* line 110: client.GetTagDetail for the worker's own tag
WorkerFetch(i) ==
    /\ wpc[i] = "fetch"
    /\ \E ok \in BOOLEAN :
        /\ wres' = [wres EXCEPT ![i] = WorkerResult(i - 1, tags[i], ok)]
        /\ outcomes' = [outcomes EXCEPT ![i] = IF ok THEN "detail" ELSE "error"]
    /\ wpc' = [wpc EXCEPT ![i] = "send"]
    /\ UNCHANGED <<tags, lpc, sem, wg, resultsCh, closed, cpc, detailsMap, arrivals,
                   data, outsideList>>

\* line 111: resultsCh <- result{...}; the buffer holds len(tags) results
WorkerSend(i) ==
    /\ wpc[i] = "send"
    /\ ~closed
    /\ Len(resultsCh) < Len(tags)
    /\ resultsCh' = Append(resultsCh, wres[i])
    /\ wres' = [wres EXCEPT ![i] = NoResult]
    /\ wpc' = [wpc EXCEPT ![i] = "release"]
    /\ UNCHANGED <<tags, lpc, sem, wg, closed, cpc, detailsMap, arrivals, data,
                   outcomes, outsideList>>

\* line 108: the deferred <-sem
WorkerRelease(i) ==
    /\ wpc[i] = "release"
    /\ sem' = sem - 1
    /\ wpc' = [wpc EXCEPT ![i] = "wgDone"]
    /\ UNCHANGED <<tags, lpc, wres, wg, resultsCh, closed, cpc, detailsMap, arrivals,
                   data, outcomes, outsideList>>

\* line 106: the deferred wg.Done()
WorkerDone(i) ==
    /\ wpc[i] = "wgDone"
    /\ wg' = wg - 1
    /\ wpc' = [wpc EXCEPT ![i] = "done"]
    /\ UNCHANGED <<tags, lpc, wres, sem, resultsCh, closed, cpc, detailsMap, arrivals,
                   data, outcomes, outsideList>>

\* lines 116-117: wg.Wait() returns at counter zero, then close(resultsCh)
CloseResults ==
    /\ cpc = "wait"
    /\ wg_Wait_Returns(wg)
    /\ closed' = TRUE
    /\ cpc' = "done"
    /\ UNCHANGED <<tags, lpc, wpc, wres, sem, wg, resultsCh, detailsMap, arrivals, data,
                   outcomes, outsideList>>

\* lines 120-127: one iteration of for res := range resultsCh
Receive ==
    /\ lpc = "receive"
    /\ resultsCh # <<>>
    /\ detailsMap' = RecordResult(detailsMap, tags, Head(resultsCh))
    /\ arrivals' = Append(arrivals, Head(resultsCh).index)
    /\ resultsCh' = Tail(resultsCh)
    /\ UNCHANGED <<tags, lpc, wpc, wres, sem, wg, closed, cpc, data, outcomes, outsideList>>

\* lines 129-169: the range loop ends on the closed, drained channel; the rows are
\* built in the order of tags. info.Architectures of a tag without an entry in
\* detailsMap dereferences nil
BuildRows ==
    /\ lpc = "receive"
    /\ resultsCh = <<>>
    /\ closed
    /\ IF \A i \in 1..Len(tags) : MapHas(detailsMap, tags[i])
       THEN data' = Rows(tags, detailsMap, Len(tags)) /\ lpc' = "done"
       ELSE data' = data /\ lpc' = "panic"
    /\ UNCHANGED <<tags, wpc, wres, sem, wg, resultsCh, closed, cpc, detailsMap,
                   arrivals, outcomes, outsideList>>

NextList ==
    \/ ListTags
    \/ SortTags
    \/ Spawn
    \/ StartCloser
    \/ \E i \in 1..Len(wpc) : WorkerAcquire(i)
    \/ \E i \in 1..Len(wpc) : WorkerFetch(i)
    \/ \E i \in 1..Len(wpc) : WorkerSend(i)
    \/ \E i \in 1..Len(wpc) : WorkerRelease(i)
    \/ \E i \in 1..Len(wpc) : WorkerDone(i)
    \/ CloseResults
    \/ Receive
    \/ BuildRows

SpecList == InitList /\ [][NextList]_vars

(* ------------------------------------------------------------------ *)
(* What the claims about the tag enumeration speak of                 *)
(* ------------------------------------------------------------------ *)

\* the sizes a row of tag t may show: the one the registry serves, or the zero
\* of a detail that holds the name only
SizesOf(t) == {RemoteTagDetail(t).Size, NameOnlyDetail(t).Size}

\* C10: the enumeration never fails on a tag without a detail, and when it
\* has ended there is one row per tag of the tag list, in the order of the
\* tag list: row i carries number i, the name of the i-th tag and a detail
\* of the i-th tag, in whatever order the fetches completed and their
\* results arrived. (The tag list the enumeration is given is the sorted
\* slice: sort.Strings runs before the fetches start.)
C10_RowsFollowTagOrder ==
    /\ lpc # "panic"
    /\ lpc = "done" =>
        /\ Len(data) = Len(tags)
        /\ \A i \in 1..Len(tags) :
            /\ data[i].No = i
            /\ data[i].Tag = DisplayName(tags[i])
            /\ data[i].Size \in SizesOf(tags[i])

\* three different tags, every fetch succeeded, the results arrived in the
\* order third, first, second, and the rows are in the order of the tags
C10_Witness ==
    /\ lpc = "done"
    /\ tags = <<<<"a", "b">>, <<"b">>, S_latest>>
    /\ arrivals = <<2, 0, 1>>
    /\ Len(data) = 3
    /\ data[1].Size = RemoteTagDetail(tags[1]).Size
    /\ data[2].Size = RemoteTagDetail(tags[2]).Size
    /\ data[3].Size = RemoteTagDetail(tags[3]).Size
    /\ data[1].Size # data[2].Size
    /\ data[2].Size # data[3].Size
    /\ data[1].Size # data[3].Size
    /\ data[1].Size > 0
    /\ data[3].Tag = <<"l", "a", "t", "e", "s", "t", " ", "(", "*", ")">>

(* ------------------------------------------------------------------ *)
(* listTagsCmd.Run, lines 99-113: the worker goroutines by number     *)
(* ------------------------------------------------------------------ *)

\* the most tags of a repository whose workers are counted
MaxPoolTags == 12

\* The goroutines of lines 105-112 run the same statements and differ in
\* their tag only, so pool holds, for len(tags) = n, how many of them are at
\* each statement: spawned by the loop, before sem <- (acquire), in
\* client.GetTagDetail (fetch), before resultsCh <- (send), before <-sem
\* (release), before wg.Done() (wgDone), returned (done); with the tokens in
\* sem, the WaitGroup counter, the results buffered in resultsCh and how many
\* of the fetches returned an error.
PoolOf(n) ==
    [n |-> n, spawned |-> 0, acquire |-> 0, fetch |-> 0, send |-> 0, release |-> 0,
     wgDone |-> 0, done |-> 0, sem |-> 0, wg |-> 0, resultsCh |-> 0, failed |-> FALSE]

InitPool ==
    /\ CopyIdle
    /\ ListIdle
    /\ MigrateIdle
    /\ HarborIdle
    /\ ResolveIdle
    /\ ProxyIdle
    /\ FeedIdle
    /\ pool \in {PoolOf(n) : n \in 1..MaxPoolTags}
    /\ drain = DrainStart

\* lines 103-113: wg.Add(1) and the go statement for the next tag
PoolSpawn ==
    /\ pool.spawned < pool.n
    /\ pool' = [pool EXCEPT !.spawned = @ + 1, !.wg = @ + 1, !.acquire = @ + 1]
    /\ UNCHANGED outsidePool

\* line 107: sem <- struct{}{}
PoolAcquire ==
    /\ pool.acquire > 0
    /\ sem_CanSend(pool.sem)
    /\ pool' = [pool EXCEPT !.acquire = @ - 1, !.sem = @ + 1, !.fetch = @ + 1]
    /\ UNCHANGED outsidePool

\* line 110: client.GetTagDetail returns a detail or an error
PoolFetch ==
    /\ pool.fetch > 0
    /\ \E ok \in BOOLEAN :
        pool' = [pool EXCEPT !.fetch = @ - 1, !.send = @ + 1,
                             !.failed = @ \/ ~ok]
    /\ UNCHANGED outsidePool

\* line 99: a resultsCh that buffers one result
resultsCh_Capacity_One(n) == 1

\* line 99: make(chan result, len(tags))
resultsCh_Capacity(n) == n

\* line 111: resultsCh <- result{...}; the buffer holds len(tags) results
PoolSend ==
    /\ pool.send > 0
    /\ pool.resultsCh < resultsCh_Capacity(pool.n)
    /\ pool' = [pool EXCEPT !.send = @ - 1, !.resultsCh = @ + 1, !.release = @ + 1]
    /\ UNCHANGED outsidePool

\* line 108: the deferred <-sem
PoolRelease ==
    /\ pool.release > 0
    /\ pool' = [pool EXCEPT !.release = @ - 1, !.sem = @ - 1, !.wgDone = @ + 1]
    /\ UNCHANGED outsidePool

\* line 106: the deferred wg.Done()
PoolDone ==
    /\ pool.wgDone > 0
    /\ pool' = [pool EXCEPT !.wgDone = @ - 1, !.wg = @ - 1, !.done = @ + 1]
    /\ UNCHANGED outsidePool

NextPool ==
    \/ PoolSpawn
    \/ PoolAcquire
    \/ PoolFetch
    \/ PoolSend
    \/ PoolRelease
    \/ PoolDone

SpecPool == InitPool /\ [][NextPool]_vars

\* lines 115-118: the closing goroutine, started after the loop of lines
\* 103-113: wg.Wait() has returned, close(resultsCh)
PoolClose ==
    /\ pool.spawned = pool.n
    /\ ~drain.closed
    /\ wg_Wait_Returns(pool.wg)
    /\ drain' = [drain EXCEPT !.closed = TRUE]
    /\ UNCHANGED <<pool, outsideEnumeration>>

\* lines 121-127: the loop over resultsCh, after the loop of lines 103-113,
\* receives a result
PoolReceive ==
    /\ pool.spawned = pool.n
    /\ drain.lpc = "range"
    /\ pool.resultsCh > 0
    /\ pool' = [pool EXCEPT !.resultsCh = @ - 1]
    /\ drain' = [drain EXCEPT !.received = @ + 1]
    /\ UNCHANGED outsideEnumeration

\* line 121: the loop ends when resultsCh is closed and empty
PoolRangeEnds ==
    /\ pool.spawned = pool.n
    /\ drain.lpc = "range"
    /\ drain.closed
    /\ pool.resultsCh = 0
    /\ drain' = [drain EXCEPT !.lpc = "rows"]
    /\ UNCHANGED <<pool, outsideEnumeration>>

NextEnumeration ==
    \/ NextPool
    \/ PoolClose
    \/ PoolReceive
    \/ PoolRangeEnds

\* len(tags): one tag, as many as sem has room for, and more than that
EnumerationSizes == {1, SemCapacity, MaxPoolTags}

InitEnumeration ==
    /\ CopyIdle
    /\ ListIdle
    /\ MigrateIdle
    /\ HarborIdle
    /\ ResolveIdle
    /\ ProxyIdle
    /\ FeedIdle
    /\ pool \in {PoolOf(n) : n \in EnumerationSizes}
    /\ drain = DrainStart

SpecEnumeration == InitEnumeration /\ [][NextEnumeration]_vars

\* Every goroutine that can take a step is scheduled, and every
\* client.GetTagDetail in flight returns.
FairEnumeration ==
    /\ WF_vars(PoolSpawn)
    /\ WF_vars(PoolAcquire)
    /\ WF_vars(PoolFetch)
    /\ WF_vars(PoolSend)
    /\ WF_vars(PoolRelease)
    /\ WF_vars(PoolDone)
    /\ WF_vars(PoolClose)
    /\ WF_vars(PoolReceive)
    /\ WF_vars(PoolRangeEnds)

SpecEnumerationFair == SpecEnumeration /\ FairEnumeration

\* C11: at most ten fetches are in flight at once; the tokens in sem are
\* exactly those of the workers between their acquire and their release,
\* so a worker holds one during its fetch and until it has sent its result,
\* whether the fetch failed or not; and once every worker has returned no
\* token is left in sem.
C11_AtMostTenFetchesInFlight ==
    /\ pool.fetch <= 10
    /\ pool.fetch <= SemCapacity
    /\ pool.sem = pool.fetch + pool.send + pool.release
    /\ pool.sem <= SemCapacity
    /\ pool.done = pool.n => pool.sem = 0

\* twelve tags: ten fetches in flight and two workers waiting for a token
C11_Witness ==
    /\ pool.n = 12
    /\ pool.fetch = 10
    /\ pool.acquire = 2
    /\ pool.sem = SemCapacity

(* ------------------------------------------------------------------ *)
(* Failed fetches and the end of the enumeration                      *)
(* ------------------------------------------------------------------ *)

\* the worker whose result for the tag t was the last to be received; for a
\* tag listed once this is the worker of that tag
LastReceivedFor(t) ==
    LET ks == {k \in 1..Len(arrivals) : tags[arrivals[k] + 1] = t}
        last == CHOOSE k \in ks : \A j \in ks : j <= k
    IN  arrivals[last] + 1

\* the detail a tag ends with when its fetch returned the outcome o
DetailAfter(t, o) == IF o = "error" THEN NameOnlyDetail(t) ELSE RemoteTagDetail(t)

\* C12: a fetch that fails does not end the enumeration. When the rows are
\* built there is a row for every tag; the detail of a tag whose fetch
\* failed holds its name only, and the detail of every other tag is the one
\* its own fetch returned. (Of a tag the registry listed twice, the detail
\* is the one of its result received last.)
C12_FailedFetchYieldsNameOnly ==
    /\ (\E i \in 1..Len(outcomes) : outcomes[i] = "error") => lpc \notin {"exit", "panic"}
    /\ (lpc = "done" /\ tags # <<>>) =>
        /\ Len(data) = Len(tags)
        /\ \A i \in 1..Len(tags) :
            LET w == LastReceivedFor(tags[i])
            IN  /\ outcomes[w] \in {"detail", "error"}
                /\ tags[w] = tags[i]
                /\ (\A j \in 1..Len(tags) : tags[j] = tags[i] => j = i) => w = i
                /\ MapGet(detailsMap, tags[i]) = DetailAfter(tags[i], outcomes[w])
                /\ data[i].Tag = DisplayName(tags[i])
                /\ data[i].Size = DetailAfter(tags[i], outcomes[w]).Size

\* three different tags, the fetch of the second failed: its row has the name
\* only, the two others have what the registry serves
C12_Witness ==
    /\ lpc = "done"
    /\ tags = <<<<"a", "b">>, <<"b">>, S_latest>>
    /\ outcomes = <<"detail", "error", "detail">>
    /\ Len(data) = 3
    /\ data[2] = [No |-> 2, Tag |-> <<"b">>, Size |-> 0]
    /\ MapGet(detailsMap, <<"b">>) = [Name |-> <<"b">>, Digest |-> 0, Size |-> 0]
    /\ MapGet(detailsMap, S_latest) = RemoteTagDetail(S_latest)
    /\ data[1].Size > 0
    /\ data[3].Size > 0

AllWorkersReturned ==
    /\ Len(wpc) = Len(tags)
    /\ \A i \in 1..Len(wpc) : wpc[i] = "done"

\* C13: resultsCh is closed by the one close statement of the closing
\* goroutine, its last, and only when every worker has returned; the rows
\* are built only after the close, from the drained channel; and when they
\* are built every tag of the list has exactly one entry in detailsMap, so
\* no tag is without a detail.
C13_CloseAfterWorkersRowsAfterClose ==
    /\ closed <=> cpc = "done"
    /\ closed => AllWorkersReturned
    /\ lpc # "panic"
    /\ (lpc = "done" /\ tags # <<>>) =>
        /\ closed
        /\ resultsCh = <<>>
        /\ Len(arrivals) = Len(tags)
        /\ \A i \in 1..Len(tags) :
            Cardinality({e \in detailsMap : e.key = tags[i]}) = 1
    /\ data # <<>> => lpc = "done"

\* three tags, one name listed twice: the rows were built after the close
\* and the three results left one entry per name
C13_Witness ==
    /\ lpc = "done"
    /\ closed
    /\ Len(tags) = 3
    /\ tags[1] = tags[2]
    /\ tags[2] # tags[3]
    /\ Len(data) = 3
    /\ Cardinality(detailsMap) = 2
    /\ AllWorkersReturned

(* ------------------------------------------------------------------ *)
(* migrateCmd.Run: the plan, image by image and tag by tag            *)
(* ------------------------------------------------------------------ *)

\* the most images of a plan
MaxImages == 2

\* strings.Split(s, "/"): the pieces of s between the slashes
RECURSIVE strings_Split(_)
strings_Split(s) ==
    IF \A i \in 1..Len(s) : s[i] # "/" THEN <<s>>
    ELSE LET i == CHOOSE j \in 1..Len(s) : s[j] = "/" /\ \A k \in 1..(j - 1) : s[k] # "/"
         IN  <<SubSeq(s, 1, i - 1)>> \o strings_Split(SubSeq(s, i + 1, Len(s)))

\* config.ImageConfig, by the fields the loop reads
ImageConfig(name, targetName, imageTags) ==
    [Name |-> name, TargetName |-> targetName, Tags |-> imageTags]

\* the images a plan is made of: in the project t under its own name with two
\* tags, in the project t under a target name with no tags given, in the
\* project o with one tag, and outside any project with one tag or with no
\* tags given
PlanImages ==
    {ImageConfig(<<"t", "/", "a">>, <<>>, <<<<"a">>, <<"b">>>>),
     ImageConfig(<<"c">>, <<"t", "/", "b">>, <<>>),
     ImageConfig(<<"o", "/", "a">>, <<>>, <<<<"a">>>>),
     ImageConfig(<<"c">>, <<>>, <<<<"a">>>>),
     ImageConfig(<<"c">>, <<>>, <<>>)}

\* what srcClient.ListTags may return: an error (<<>> for the tags, TRUE), or tags
ListTagsAnswers ==
    {[tags |-> <<>>, err |-> TRUE]}
        \cup {[tags |-> ts, err |-> FALSE] : ts \in {<<>>, <<<<"b">>, <<"a">>>>}}

\* lines 111-114
DstName(image) == IF image.TargetName = <<>> THEN image.Name ELSE image.TargetName

\* every dstName taken to name a project
HasProject_Always(dstName) == TRUE

\* lines 119-121: whether dstName names a project, and which
HasProject(dstName) == Len(strings_Split(dstName)) > 1

ProjectOf(dstName) == strings_Split(dstName)[1]

\* a check that forgets the projects it has seen
NeedsEnsure_Always(checked, project) == TRUE

\* line 124: !checkedProjects[project]
NeedsEnsure(checked, project) == project \notin checked

\* a project marked only when EnsureProject returned no error
MarkChecked_OnSuccess(checked, project, ok) ==
    IF ok THEN checked \cup {project} ELSE checked

\* line 130: checkedProjects[project] = true, after the if of lines 126-129
MarkChecked(checked, project, ok) == checked \cup {project}

\* a loop that goes on with the tag after the next
NextIndex_Skip(i) == i + 2

\* the range loops of lines 88 and 155 go on with the next element
NextIndex(i) == i + 1

\* counts that leave the failed copies out
CountResult_FailuresLost(e, s, f) ==
    IF e THEN [successCount |-> s, failCount |-> f]
    ELSE [successCount |-> s + 1, failCount |-> f]

\* lines 193-199: a copy with an error counts as failed, one without as succeeded
CountResult(e, s, f) ==
    IF e THEN [successCount |-> s, failCount |-> f + 1]
    ELSE [successCount |-> s + 1, failCount |-> f]

\* a close of a closed channel without the recover of lines 179-182
CloseOutcome_NoRecover(alreadyClosed) == IF alreadyClosed THEN "crash" ELSE "closed"

\* lines 178-184: close(updates) under a deferred recover; closing a closed
\* channel panics and the panic is recovered
CloseOutcome(alreadyClosed) == IF alreadyClosed THEN "recovered" ELSE "closed"

\* the copy goroutine and the channels of one tag (lines 158-187): the goroutine
\* at statement gpc with the error of CopyImage in err (TRUE for non-nil), the
\* updates channel, the errCh buffer, and whether the command has received
\* from errCh. The progress goroutine of lines 166-173 only receives from
\* updates and is left out.
TagCopy(image, tag) ==
    [image |-> image, tag |-> tag, gpc |-> "copy", err |-> FALSE, pushed |-> FALSE,
     updatesClosed |-> FALSE, closeTried |-> "no", errCh |-> <<>>,
     received |-> FALSE]

\* a tag is wound up when its goroutine has returned and its error is received
WoundUp(c) == c.gpc = "done" /\ c.received

StillRunning(cs) == SelectSeq(cs, LAMBDA c : ~WoundUp(c))

MigrateIdleOutside ==
    /\ CopyIdle
    /\ ListIdle
    /\ PoolIdle
    /\ HarborIdle
    /\ ResolveIdle
    /\ ProxyIdle
    /\ FeedIdle

InitMigrate ==
    /\ MigrateIdleOutside
    /\ plan \in SeqsUpTo(PlanImages, MaxImages)
    /\ harborOn \in BOOLEAN
    /\ mpc = "image"
    /\ imgIx = 1
    /\ tagsToMigrate = <<>>
    /\ tagIx = 0
    /\ checkedProjects = {}
    /\ ensureCalls = <<>>
    /\ listings = <<>>
    /\ attempts = <<>>
    /\ results = <<>>
    /\ copies = <<>>
    /\ successCount = 0
    /\ failCount = 0
    /\ crashed = FALSE

\* lines 88-134: the next image; with a Harbor client, EnsureProject for the
\* project of dstName unless checkedProjects has it; the project is marked
\* whether EnsureProject returned an error or not
StartImage ==
    /\ mpc = "image"
    /\ ~crashed
    /\ imgIx <= Len(plan)
    /\ LET dstName == DstName(plan[imgIx])
       IN  IF harborOn /\ HasProject(dstName)
                /\ NeedsEnsure(checkedProjects, ProjectOf(dstName))
           THEN \E ok \in BOOLEAN :
                    /\ ensureCalls' = Append(ensureCalls,
                                             [project |-> ProjectOf(dstName), ok |-> ok])
                    /\ checkedProjects' =
                            MarkChecked(checkedProjects, ProjectOf(dstName), ok)
           ELSE UNCHANGED <<ensureCalls, checkedProjects>>
    /\ mpc' = "tags"
    /\ UNCHANGED <<plan, harborOn, imgIx, tagsToMigrate, tagIx, listings, attempts,
                   results, copies, successCount, failCount, crashed, outsideMigrate>>

\* lines 138-148: the tags of the image, listed from the source when the plan
\* gives none; a failed listing counts as a failure and the loop goes on
ResolveTags ==
    /\ mpc = "tags"
    /\ ~crashed
    /\ IF Len(plan[imgIx].Tags) = 0
       THEN \E answer \in ListTagsAnswers :
                IF answer.err
                THEN /\ failCount' = failCount + 1
                     /\ listings' = Append(listings, [ok |-> FALSE, tags |-> <<>>])
                     /\ imgIx' = NextIndex(imgIx)
                     /\ mpc' = "image"
                     /\ UNCHANGED <<tagsToMigrate, tagIx>>
                ELSE /\ tagsToMigrate' = answer.tags
                     /\ listings' = Append(listings, [ok |-> TRUE, tags |-> answer.tags])
                     /\ tagIx' = 1
                     /\ mpc' = "tag"
                     /\ UNCHANGED <<failCount, imgIx>>
       ELSE /\ tagsToMigrate' = plan[imgIx].Tags
            /\ listings' = Append(listings, [ok |-> TRUE, tags |-> plan[imgIx].Tags])
            /\ tagIx' = 1
            /\ mpc' = "tag"
            /\ UNCHANGED <<failCount, imgIx>>
    /\ UNCHANGED <<plan, harborOn, checkedProjects, ensureCalls, attempts, results,
                   copies, successCount, crashed, outsideMigrate>>

\* lines 155-187: the next tag: fresh updates and errCh channels, the progress
\* goroutine and the copy goroutine
StartTag ==
    /\ mpc = "tag"
    /\ ~crashed
    /\ tagIx <= Len(tagsToMigrate)
    /\ copies' = Append(StillRunning(copies), TagCopy(imgIx, tagsToMigrate[tagIx]))
    /\ attempts' = Append(attempts, [image |-> imgIx, tag |-> tagsToMigrate[tagIx]])
    /\ mpc' = "wait"
    /\ UNCHANGED <<plan, harborOn, imgIx, tagsToMigrate, tagIx, checkedProjects,
                   ensureCalls, listings, results, successCount, failCount, crashed,
                   outsideMigrate>>

\* line 200: the tags of the image are exhausted
EndImage ==
    /\ mpc = "tag"
    /\ ~crashed
    /\ tagIx > Len(tagsToMigrate)
    /\ imgIx' = NextIndex(imgIx)
    /\ mpc' = "image"
    /\ UNCHANGED <<plan, harborOn, tagsToMigrate, tagIx, checkedProjects, ensureCalls,
                   listings, attempts, results, copies, successCount, failCount,
                   crashed, outsideMigrate>>

\* the copies with the k-th replaced, without those wound up
WithCopy(k, c) == StillRunning([copies EXCEPT ![k] = c])

\* line 176: CopyImage returns an error before any remote.Write or remote.WriteIndex
CopyFails(k) ==
    /\ ~crashed
    /\ copies[k].gpc = "copy"
    /\ copies' = WithCopy(k, [copies[k] EXCEPT !.gpc = "close", !.err = TRUE])
    /\ UNCHANGED <<plan, harborOn, mpc, imgIx, tagsToMigrate, tagIx, checkedProjects,
                   ensureCalls, listings, attempts, results, successCount, failCount,
                   crashed, outsideMigrate>>

\* line 176: CopyImage reaches its remote.Write or remote.WriteIndex
CopyPushes(k) ==
    /\ ~crashed
    /\ copies[k].gpc = "copy"
    /\ copies' = WithCopy(k, [copies[k] EXCEPT !.gpc = "push", !.pushed = TRUE])
    /\ UNCHANGED <<plan, harborOn, mpc, imgIx, tagsToMigrate, tagIx, checkedProjects,
                   ensureCalls, listings, attempts, results, successCount, failCount,
                   crashed, outsideMigrate>>

\* the push returns, with or without an error; the remote package closes the
\* channel given to remote.WithProgress when the write returns, which is not
\* code of this repository: both a closed and an open channel are allowed for
PushReturns(k) ==
    /\ ~crashed
    /\ copies[k].gpc = "push"
    /\ \E ok \in BOOLEAN, closedByWrite \in BOOLEAN :
        copies' = WithCopy(k, [copies[k] EXCEPT !.gpc = "close", !.err = ~ok,
                                                !.updatesClosed = closedByWrite])
    /\ UNCHANGED <<plan, harborOn, mpc, imgIx, tagsToMigrate, tagIx, checkedProjects,
                   ensureCalls, listings, attempts, results, successCount, failCount,
                   crashed, outsideMigrate>>

\* lines 178-184: close(updates) under the deferred recover
CloseUpdates(k) ==
    /\ ~crashed
    /\ copies[k].gpc = "close"
    /\ LET outcome == CloseOutcome(copies[k].updatesClosed)
       IN  /\ copies' = WithCopy(k, [copies[k] EXCEPT !.gpc = "send",
                                                      !.updatesClosed = TRUE,
                                                      !.closeTried = outcome])
           /\ crashed' = (outcome = "crash")
    /\ UNCHANGED <<plan, harborOn, mpc, imgIx, tagsToMigrate, tagIx, checkedProjects,
                   ensureCalls, listings, attempts, results, successCount, failCount,
                   outsideMigrate>>

\* line 186: errCh <- err; errCh has room for one error
SendErr(k) ==
    /\ ~crashed
    /\ copies[k].gpc = "send"
    /\ Len(copies[k].errCh) < 1
    /\ copies' = WithCopy(k, [copies[k] EXCEPT !.gpc = "done",
                                               !.errCh = Append(@, copies[k].err)])
    /\ UNCHANGED <<plan, harborOn, mpc, imgIx, tagsToMigrate, tagIx, checkedProjects,
                   ensureCalls, listings, attempts, results, successCount, failCount,
                   crashed, outsideMigrate>>

\* lines 189-199: err = <-errCh of the tag at hand, which is the last started;
\* the tag counts as a failure or as a success
ReceiveErr ==
    /\ mpc = "wait"
    /\ ~crashed
    /\ LET k == Len(copies)
       IN  /\ copies[k].errCh # <<>>
           /\ results' = Append(results, Head(copies[k].errCh))
           /\ successCount' =
                CountResult(Head(copies[k].errCh), successCount, failCount).successCount
           /\ failCount' =
                CountResult(Head(copies[k].errCh), successCount, failCount).failCount
           /\ copies' = WithCopy(k, [copies[k] EXCEPT !.errCh = Tail(@),
                                                      !.received = TRUE])
    /\ tagIx' = NextIndex(tagIx)
    /\ mpc' = "tag"
    /\ UNCHANGED <<plan, harborOn, imgIx, tagsToMigrate, checkedProjects, ensureCalls,
                   listings, attempts, crashed, outsideMigrate>>

\* lines 201-204: the images are exhausted and the counts are printed
FinishRun ==
    /\ mpc = "image"
    /\ ~crashed
    /\ imgIx > Len(plan)
    /\ mpc' = "end"
    /\ UNCHANGED <<plan, harborOn, imgIx, tagsToMigrate, tagIx, checkedProjects,
                   ensureCalls, listings, attempts, results, copies, successCount,
                   failCount, crashed, outsideMigrate>>

NextMigrate ==
    \/ StartImage
    \/ ResolveTags
    \/ StartTag
    \/ EndImage
    \/ \E k \in 1..Len(copies) : CopyFails(k)
    \/ \E k \in 1..Len(copies) : CopyPushes(k)
    \/ \E k \in 1..Len(copies) : PushReturns(k)
    \/ \E k \in 1..Len(copies) : CloseUpdates(k)
    \/ \E k \in 1..Len(copies) : SendErr(k)
    \/ ReceiveErr
    \/ FinishRun

SpecMigrate == InitMigrate /\ [][NextMigrate]_vars

(* ------------------------------------------------------------------ *)
(* What the claims about migrateCmd.Run speak of                      *)
(* ------------------------------------------------------------------ *)

\* C14: whatever CopyImage did (returned an error before a push, pushed, or
\* failed in the push), once the copy goroutine is past its close statement
\* the updates channel is closed; the goroutine puts its one error on errCh
\* only then, so every tag started has either its goroutine still at work or
\* exactly one error delivered; and closing a channel that the push already
\* closed is recovered from, so the process is never ended by it.
C14_UpdatesClosedOneErrorNoCrash ==
    /\ ~crashed
    /\ \A k \in 1..Len(copies) :
        LET c == copies[k]
        IN  /\ c.gpc \in {"send", "done"} =>
                /\ c.updatesClosed
                /\ c.closeTried \in {"closed", "recovered"}
            /\ c.gpc \in {"copy", "push", "close"} => c.closeTried = "no" /\ c.errCh = <<>>
            /\ c.gpc = "send" => c.errCh = <<>>
            /\ c.gpc = "done" => (c.errCh = <<c.err>> /\ ~c.received)
            /\ c.closeTried = "recovered" => c.pushed
    /\ Len(attempts) = Len(results) + Len(copies)

\* a push that failed and had the channel closed already: the close was
\* recovered from and the error is in errCh
C14_Witness ==
    /\ ~crashed
    /\ Len(copies) = 1
    /\ copies[1].pushed
    /\ copies[1].err
    /\ copies[1].closeTried = "recovered"
    /\ copies[1].updatesClosed
    /\ copies[1].gpc = "done"
    /\ copies[1].errCh = <<TRUE>>
    /\ Len(results) >= 1

\* the (image, tag) pairs of the images gone through, image by image
RECURSIVE PlannedCopies(_)
PlannedCopies(n) ==
    IF n = 0 THEN <<>>
    ELSE PlannedCopies(n - 1)
            \o [j \in 1..Len(listings[n].tags) |-> [image |-> n, tag |-> listings[n].tags[j]]]

IsPrefix(a, b) == Len(a) <= Len(b) /\ a = SubSeq(b, 1, Len(a))

\* C15: at most one copy goroutine exists at any time, and none while the
\* command is at any statement but its receive from errCh: a copy is started
\* only when the errors of all earlier copies are received. The copies
\* started are, in order, the tags of the images in plan order, each once;
\* at the end of the run all of them, for every image of the plan.
C15_OneCopyAtATimeInPlanOrder ==
    /\ Len(copies) <= 1
    /\ Len(copies) = 1 <=> mpc = "wait"
    /\ mpc = "wait" => Len(attempts) = Len(results) + 1
    /\ mpc # "wait" => Len(attempts) = Len(results)
    /\ IsPrefix(attempts, PlannedCopies(Len(listings)))
    /\ \A i \in 1..Len(listings) :
        plan[i].Tags # <<>> => listings[i] = [ok |-> TRUE, tags |-> plan[i].Tags]
    /\ mpc = "end" =>
        /\ Len(listings) = Len(plan)
        /\ attempts = PlannedCopies(Len(plan))

\* two images with two tags each, the second image's tags listed in the order
\* b, a: four copies, in that order
C15_Witness ==
    /\ mpc = "end"
    /\ Len(plan) = 2
    /\ attempts = <<[image |-> 1, tag |-> <<"a">>], [image |-> 1, tag |-> <<"b">>],
                    [image |-> 2, tag |-> <<"b">>], [image |-> 2, tag |-> <<"a">>]>>
    /\ Len(results) = 4

NumberOf(seq, x) == Cardinality({i \in 1..Len(seq) : seq[i] = x})

FailedListings == Cardinality({i \in 1..Len(listings) : ~listings[i].ok})

\* C16: no failure ends the run: the process never crashes, and at the end
\* every image of the plan has been gone through. All along successCount is
\* the number of copies that returned no error and failCount the number of
\* copies that returned one plus the number of failed listings, so at the
\* end their sum is the number of copies started plus the number of images
\* whose listing failed.
C16_CountsAddUp ==
    /\ ~crashed
    /\ successCount = NumberOf(results, FALSE)
    /\ failCount = NumberOf(results, TRUE) + FailedListings
    /\ mpc = "end" =>
        /\ Len(listings) = Len(plan)
        /\ Len(results) = Len(attempts)
        /\ successCount + failCount = Len(attempts) + FailedListings

\* a run whose first image could not be listed and whose second image had a
\* failed copy followed by a copy that succeeded
C16_Witness ==
    /\ mpc = "end"
    /\ Len(plan) = 2
    /\ listings[1].ok = FALSE
    /\ results = <<TRUE, FALSE>>
    /\ successCount = 1
    /\ failCount = 2

\* the projects EnsureProject was called for
EnsuredProjects == {ensureCalls[i].project : i \in 1..Len(ensureCalls)}

\* C20: checkedProjects only grows; EnsureProject is called at most once for
\* a project, and only for a project that is not in checkedProjects, which
\* holds exactly the projects it was called for, whether the call failed or
\* not.
C20_EnsureOncePerProject ==
    /\ [](/\ \A i, j \in 1..Len(ensureCalls) :
                ensureCalls[i].project = ensureCalls[j].project => i = j
          /\ checkedProjects = EnsuredProjects)
    /\ [][/\ checkedProjects \subseteq checkedProjects'
          /\ ensureCalls' # ensureCalls =>
                /\ Len(ensureCalls') = Len(ensureCalls) + 1
                /\ ensureCalls'[Len(ensureCalls')].project \notin checkedProjects]_vars

\* two images of the project t with four tags between them: one call
C20_Witness ==
    /\ mpc = "end"
    /\ harborOn
    /\ Len(plan) = 2
    /\ \A i \in 1..2 : ProjectOf(DstName(plan[i])) = <<"t">>
    /\ HasProject(DstName(plan[1]))
    /\ Len(attempts) = 4
    /\ Len(ensureCalls) = 1
    /\ checkedProjects = {<<"t">>}

(* ------------------------------------------------------------------ *)
(* harbor.Client: EnsureProject                                       *)
(* ------------------------------------------------------------------ *)

\* the most EnsureProject calls of one caller
MaxEnsureCalls == 2

S_https == <<"h", "t", "t", "p", "s", ":", "/", "/">>

S_http == <<"h", "t", "t", "p", ":", "/", "/">>

\* strings.HasPrefix(s, prefix)
strings_HasPrefix(s, prefix) ==
    Len(s) >= Len(prefix) /\ SubSeq(s, 1, Len(prefix)) = prefix

\* strings.TrimSuffix(s, "/")
strings_TrimSuffix(s) ==
    IF Len(s) >= 1 /\ s[Len(s)] = "/" THEN SubSeq(s, 1, Len(s) - 1) ELSE s

\* strings.Replace(s, old, new, 1): the first occurrence of old replaced
strings_Replace(s, old, new) ==
    LET i == strings_Index(s, old)
    IN  IF i < 0 THEN s
        ELSE SubSeq(s, 1, i) \o new \o SubSeq(s, i + Len(old) + 1, Len(s))

\* lines 26-30: the base URL of a new client
NewClient_BaseURL(address) ==
    strings_TrimSuffix(IF ~strings_HasPrefix(address, S_http)
                            /\ ~strings_HasPrefix(address, S_https)
                       THEN S_https \o address
                       ELSE address)

\* the addresses a client is made for
Addresses == {<<"h">>, <<"h", "/">>, S_http \o <<"h">>}

\* the scheme a request to a URL is made in
SchemeOf(url) == IF strings_HasPrefix(url, S_https) THEN "https" ELSE "http"

\* the names of projects
ProjectNames == {<<"t">>, <<"t", "2">>}

\* the caller processes: the first makes up to MaxEnsureCalls calls, the second
\* one call at any moment
Callers == {1, 2}

CallsOf(i) == IF i = 1 THEN MaxEnsureCalls ELSE 1

\* what c.Client.Do and the status checks of lines 114-127 make of a GET: the
\* body of a 200 answer goes on to the decoding ("ok"); 401 and every other
\* status are errors; the transport fails with the scheme mismatch message
\* when an https request meets a plain HTTP port, and may do so for a
\* request that was redirected to an https URL on such a port; it may fail
\* otherwise at any time
CheckAnswers(url, scheme) ==
    IF SchemeOf(url) = "https" /\ scheme = "http" THEN {"mismatch"}
    ELSE IF SchemeOf(url) = "http" /\ scheme = "https" THEN {"status"}
    ELSE IF SchemeOf(url) = "http" THEN {"ok", "unauthorized", "transport", "mismatch"}
    ELSE {"ok", "unauthorized", "transport"}

\* the projects a GET /projects?name=q lists: those whose name contains q
ProjectsListed(existing, q) == {n \in existing : strings_Contains(n, q)}

\* any listed project taken for the one asked for
ProjectFound_AnyListed(listed, project) == listed # {}

\* lines 141-147: a listed project has exactly the name asked for
ProjectFound(listed, project) == \E n \in listed : n = project

\* a retry on any scheme mismatch, whatever the base URL
ShouldDowngrade_AnyURL(e, baseURL) == e = "mismatch"

\* lines 79-80: the error says the server gave an HTTP response to an HTTPS
\* client and the base URL starts with https://
ShouldDowngrade(e, baseURL) == e = "mismatch" /\ strings_HasPrefix(baseURL, S_https)

\* what a POST /projects may be answered with for a project, given the projects
\* there are: 201 or an error status when it is absent, 409 or an error
\* status when it is there; or the transport fails
CreateAnswers(existing, project) ==
    IF project \in existing THEN {"conflict", "status", "transport"}
    ELSE {"created", "status", "transport"}

\* a create that takes a conflict for a failure
CreateError_ConflictFails(answer) == IF answer = "created" THEN "none" ELSE answer

\* lines 168-182: the error createProject returns for an answer
CreateError(answer) == IF answer \in {"created", "conflict"} THEN "none" ELSE answer

\* a Client and its EnsureProject call at hand: the statement hpc, the argument,
\* exists and err, the URLs of the requests made, and the calls returned from
ClientOf(address) ==
    [BaseURL |-> NewClient_BaseURL(address), hpc |-> "idle", project |-> <<>>,
     exists |-> FALSE, err |-> "none", checkURLs |-> <<>>, checkErrs |-> <<>>,
     createURLs |-> <<>>, createAnswer |-> "none", downgrades |-> 0, calls |-> <<>>]

\* the record of a call that returned e
Returned(c, e) ==
    [project |-> c.project, err |-> e, found |-> c.exists, checkURLs |-> c.checkURLs,
     checkErrs |-> c.checkErrs, createURLs |-> c.createURLs,
     createAnswer |-> c.createAnswer]

\* the client after its call returned e
AfterReturn(c, e) ==
    [c EXCEPT !.hpc = "idle", !.calls = Append(@, Returned(c, e)), !.err = "none",
              !.exists = FALSE, !.checkURLs = <<>>, !.checkErrs = <<>>,
              !.createURLs = <<>>, !.createAnswer = "none", !.project = <<>>]

\* lines 92-100: the error of the check is returned; a project that exists is
\* a success; otherwise the project is to be created
Decide(c) ==
    IF c.err # "none" THEN AfterReturn(c, c.err)
    ELSE IF c.exists THEN AfterReturn(c, "none")
    ELSE [c EXCEPT !.hpc = "create"]

\* the client after a checkProjectExists whose request was answered with answer
AfterCheck(c, answer, existing) ==
    [c EXCEPT !.exists = answer = "ok"
                            /\ ProjectFound(ProjectsListed(existing, c.project), c.project),
              !.err = IF answer = "ok" THEN "none" ELSE answer,
              !.checkURLs = Append(@, c.BaseURL),
              !.checkErrs = Append(@, IF answer = "ok" THEN "none" ELSE answer)]

InitHarbor ==
    /\ CopyIdle
    /\ ListIdle
    /\ PoolIdle
    /\ MigrateIdle
    /\ ResolveIdle
    /\ ProxyIdle
    /\ FeedIdle
    /\ serverProjects \in SUBSET ProjectNames
    /\ serverScheme \in {"http", "https"}
    /\ clients \in [Callers -> {ClientOf(a) : a \in Addresses}]

\* line 74: a caller calls EnsureProject for some project
EnsureStart(i) ==
    /\ clients[i].hpc = "idle"
    /\ Len(clients[i].calls) < CallsOf(i)
    /\ \E p \in ProjectNames :
        clients' = [clients EXCEPT ![i] = [@ EXCEPT !.hpc = "check", !.project = p]]
    /\ UNCHANGED <<serverProjects, serverScheme, outsideHarbor>>

\* lines 75-86, 92-100: the first checkProjectExists; on a scheme mismatch with
\* an https base URL the base URL is rewritten to http for a second check;
\* otherwise the call returns or goes on to create the project
FirstCheck(i) ==
    /\ clients[i].hpc = "check"
    /\ \E answer \in CheckAnswers(clients[i].BaseURL, serverScheme) :
        LET c == AfterCheck(clients[i], answer, serverProjects)
        IN  clients' = [clients EXCEPT ![i] =
                IF ShouldDowngrade(c.err, c.BaseURL)
                THEN [c EXCEPT !.BaseURL = strings_Replace(c.BaseURL, S_https, S_http),
                               !.downgrades = @ + 1, !.hpc = "retry"]
                ELSE Decide(c)]
    /\ UNCHANGED <<serverProjects, serverScheme, outsideHarbor>>

\* lines 88-100: the second checkProjectExists, with the rewritten base URL
RetryCheck(i) ==
    /\ clients[i].hpc = "retry"
    /\ \E answer \in CheckAnswers(clients[i].BaseURL, serverScheme) :
        clients' = [clients EXCEPT ![i] =
            Decide(AfterCheck(clients[i], answer, serverProjects))]
    /\ UNCHANGED <<serverProjects, serverScheme, outsideHarbor>>

\* lines 101, 150-183: createProject; the server makes the project when it
\* answers 201
CreateProject(i) ==
    /\ clients[i].hpc = "create"
    /\ \E answer \in CreateAnswers(serverProjects, clients[i].project) :
        /\ serverProjects' = IF answer = "created"
                             THEN serverProjects \cup {clients[i].project}
                             ELSE serverProjects
        /\ clients' = [clients EXCEPT ![i] =
                AfterReturn([@ EXCEPT !.createURLs = Append(@, clients[i].BaseURL),
                                      !.createAnswer = answer],
                            CreateError(answer))]
    /\ UNCHANGED <<serverScheme, outsideHarbor>>

NextHarbor ==
    \/ \E i \in Callers : EnsureStart(i)
    \/ \E i \in Callers : FirstCheck(i)
    \/ \E i \in Callers : RetryCheck(i)
    \/ \E i \in Callers : CreateProject(i)

SpecHarbor == InitHarbor /\ [][NextHarbor]_vars

(* ------------------------------------------------------------------ *)
(* What the claims about EnsureProject speak of                       *)
(* ------------------------------------------------------------------ *)

\* the calls a caller has returned from
CallsReturned(i) == {clients[i].calls[k] : k \in 1..Len(clients[i].calls)}

AllCallsReturned == UNION {CallsReturned(i) : i \in Callers}

\* the last existence check of the call got an answer without an error
CheckSucceeded(r) == r.checkErrs # <<>> /\ r.checkErrs[Len(r.checkErrs)] = "none"

\* C17: a call whose check found a project of exactly the name returned
\* success and made no create request; a call whose check succeeded and found
\* none made exactly one; a call whose check failed made none; and the
\* project of every call that returned success is on the server.
C17_EnsureProjectChecksThenCreates ==
    \A r \in AllCallsReturned :
        /\ (CheckSucceeded(r) /\ r.found) =>
                (r.err = "none" /\ r.createURLs = <<>> /\ r.project \in serverProjects)
        /\ (CheckSucceeded(r) /\ ~r.found) => Len(r.createURLs) = 1
        /\ ~CheckSucceeded(r) => (r.createURLs = <<>> /\ r.err # "none" /\ ~r.found)
        /\ r.err = "none" => r.project \in serverProjects

\* the server had the project t2 only: the call for t was listed t2, took t
\* for missing and created it; the next call for t found it and created nothing
C17_Witness ==
    /\ Len(clients[1].calls) = 2
    /\ serverProjects = {<<"t">>, <<"t", "2">>}
    /\ clients[1].calls[1].project = <<"t">>
    /\ ~clients[1].calls[1].found
    /\ clients[1].calls[1].createAnswer = "created"
    /\ clients[1].calls[1].err = "none"
    /\ clients[1].calls[2].project = <<"t">>
    /\ clients[1].calls[2].found
    /\ clients[1].calls[2].createURLs = <<>>
    /\ clients[1].calls[2].err = "none"
    /\ clients[2].calls = <<>>
    /\ clients[2].hpc = "idle"

\* the call saw the project missing and its create request was answered 201 or 409
MissedAndServed(r) ==
    CheckSucceeded(r) /\ ~r.found /\ r.createAnswer \in {"created", "conflict"}

\* C18: a call whose create request was answered with a conflict returned
\* success; and of two callers that both saw the same project missing and
\* had their create requests served, one was answered created and the other
\* conflict, and both returned success.
C18_ConflictIsSuccess ==
    /\ \A r \in AllCallsReturned : r.createAnswer = "conflict" => r.err = "none"
    /\ \A r1 \in CallsReturned(1), r2 \in CallsReturned(2) :
        (r1.project = r2.project /\ MissedAndServed(r1) /\ MissedAndServed(r2)) =>
            /\ r1.err = "none"
            /\ r2.err = "none"
            /\ {r1.createAnswer, r2.createAnswer} = {"created", "conflict"}

\* both callers saw t missing; the second caller's create was served first
C18_Witness ==
    /\ Len(clients[1].calls) = 1
    /\ Len(clients[2].calls) = 1
    /\ clients[1].calls[1].project = <<"t">>
    /\ clients[2].calls[1].project = <<"t">>
    /\ ~clients[1].calls[1].found
    /\ ~clients[2].calls[1].found
    /\ clients[1].calls[1].createAnswer = "conflict"
    /\ clients[2].calls[1].createAnswer = "created"
    /\ clients[1].calls[1].err = "none"
    /\ clients[2].calls[1].err = "none"

\* the URL of the last request of a call
LastURL(r) ==
    IF r.createURLs # <<>> THEN r.createURLs[1] ELSE r.checkURLs[Len(r.checkURLs)]

\* C19: a call makes one existence check, or two: two exactly when the first
\* failed with the scheme mismatch and was made with an https base URL, and
\* then the second is made with that URL rewritten to http. A second check
\* that fails is returned without a create request. The create request and
\* every later call of the client use the base URL of the last check, and a
\* client rewrites its base URL at most once.
C19_DowngradeOnceRetryOnce ==
    \A i \in Callers :
        /\ clients[i].downgrades <= 1
        /\ clients[i].downgrades = 1 => strings_HasPrefix(clients[i].BaseURL, S_http)
        /\ Len(clients[i].checkURLs) <= 2
        /\ Cardinality({k \in 1..Len(clients[i].calls) :
                            Len(clients[i].calls[k].checkURLs) = 2})
                + (IF Len(clients[i].checkURLs) = 2 THEN 1 ELSE 0) <= 1
        /\ \A k \in 1..Len(clients[i].calls) :
            LET r == clients[i].calls[k]
            IN  /\ Len(r.checkURLs) \in {1, 2}
                /\ Len(r.checkURLs) = 2 <=>
                        (r.checkErrs[1] = "mismatch"
                            /\ strings_HasPrefix(r.checkURLs[1], S_https))
                /\ Len(r.checkURLs) = 2 =>
                        /\ S_https \o SubSeq(r.checkURLs[2], Len(S_http) + 1,
                                             Len(r.checkURLs[2])) = r.checkURLs[1]
                        /\ strings_HasPrefix(r.checkURLs[2], S_http)
                        /\ r.checkErrs[2] # "none" =>
                                (r.createURLs = <<>> /\ r.err = r.checkErrs[2])
                /\ r.createURLs # <<>> => r.createURLs[1] = r.checkURLs[Len(r.checkURLs)]
                /\ k < Len(clients[i].calls) =>
                        clients[i].calls[k + 1].checkURLs[1] = LastURL(r)
                /\ k = Len(clients[i].calls) => clients[i].BaseURL = LastURL(r)

\* a client made for https against a plain HTTP server: its first call
\* checked twice and created the project over http; its second call checked
\* once, over http
C19_Witness ==
    /\ serverScheme = "http"
    /\ Len(clients[1].calls) = 2
    /\ clients[1].downgrades = 1
    /\ clients[1].calls[1].checkURLs = <<S_https \o <<"h">>, S_http \o <<"h">>>>
    /\ clients[1].calls[1].checkErrs = <<"mismatch", "none">>
    /\ clients[1].calls[1].createURLs = <<S_http \o <<"h">>>>
    /\ clients[1].calls[1].createAnswer = "created"
    /\ clients[1].calls[2].checkURLs = <<S_http \o <<"h">>>>
    /\ clients[1].BaseURL = S_http \o <<"h">>

(* ------------------------------------------------------------------ *)
(* Cancellation and error wrapping in CopyImage                       *)
(* ------------------------------------------------------------------ *)

\* C26: a call of CopyImage whose ctx was cancelled before its first request,
\* or while its manifest fetch or its push was in flight, returns an error of
\* the kind Cancelled, which no transport failure has.
C26_CancelledCopyReturnsCancelled ==
    (pc = "done" /\ cancelledAt = "call") => err.kind = "Cancelled"

\* C27: every read or write failure CopyImage returns is wrapped with the
\* operation that was being attempted.
C27_EveryFailureNamesOperation ==
    (pc = "done" /\ err.kind = "Transport") => err.op # ""

(* ------------------------------------------------------------------ *)
(* config.ResolveImages and migrateCmd.Run up to the loop             *)
(* ------------------------------------------------------------------ *)

\* the most lines of an image_list
MaxLines == 2

\* the most entries under images
MaxExplicit == 1

\* normalize.go line 11
archDirectivePrefix == <<"#", "a", "r", "c", "h", "=">>

\* normalize.go line 14
defaultArchitectures == <<S_amd64, S_arm64>>

\* the least and the greatest member of a non-empty set of numbers
Min(S) == CHOOSE x \in S : \A y \in S : x <= y

Max(S) == CHOOSE x \in S : \A y \in S : y <= x

\* strings.TrimSpace(s)
strings_TrimSpace(s) ==
    LET inked == {i \in 1..Len(s) : s[i] # " "}
    IN  IF inked = {} THEN <<>> ELSE SubSeq(s, Min(inked), Max(inked))

\* strings.Split(s, sep) for a separator of one character
RECURSIVE strings_SplitSep(_, _)
strings_SplitSep(s, sep) ==
    LET at == {i \in 1..Len(s) : s[i] = sep}
    IN  IF at = {} THEN <<s>>
        ELSE <<SubSeq(s, 1, Min(at) - 1)>>
                 \o strings_SplitSep(SubSeq(s, Min(at) + 1, Len(s)), sep)

\* the lines of an image_list joined by newlines, as YAML hands them over
RECURSIVE JoinLines(_)
JoinLines(ls) ==
    IF ls = <<>> THEN <<>>
    ELSE IF Len(ls) = 1 THEN ls[1]
    ELSE ls[1] \o <<"\n">> \o JoinLines(Tail(ls))

\* config.ImageEntry
ImageEntry(registry, name, entryTags, architectures) ==
    [Registry |-> registry, Name |-> name, TargetName |-> <<>>,
     Tags |-> entryTags, Architectures |-> architectures]

\* the registry name.ParseReference gives a reference that names none
DefaultRegistry ==
    <<"i", "n", "d", "e", "x", ".", "d", "o", "c", "k", "e", "r", ".", "i", "o">>

\* the namespace RepositoryStr puts before a one-part name of DefaultRegistry
DefaultNamespace == <<"l", "i", "b", "r", "a", "r", "y">>

\* the characters name.ParseReference accepts in a repository and in a tag
RepositoryChars == {"a", "b", "r", "t", "x", "y", ".", "/", "-", "_"}

TagChars == {"a", "b", "r", "t", "x", "y", "A", ".", "-", "_"}

\* what name.ParseReference returns: a reference by the three strings
\* parseImageList reads from it (repo.RegistryStr(), repo.RepositoryStr(),
\* ref.Identifier()), or an error
ParsedReference(registry, repository, identifier) ==
    [ok |-> TRUE, Registry |-> registry, Repository |-> repository,
     Identifier |-> identifier]

BadReference ==
    [ok |-> FALSE, Registry |-> <<>>, Repository |-> <<>>, Identifier |-> <<>>]

\* line 54: name.ParseReference(line). The tag is what follows the last colon
\* when no slash follows it, the registry is the part before the first slash
\* when it has a dot or a colon; a repository has two characters at least;
\* Identifier() of a reference without a tag is "latest"
name_ParseReference(s) ==
    LET parts == strings_SplitSep(s, ":")
        last == parts[Len(parts)]
        tagged == Len(parts) > 1 /\ ~strings_Contains(last, <<"/">>)
        base == IF tagged THEN SubSeq(s, 1, Len(s) - Len(last) - 1) ELSE s
        first == strings_SplitSep(base, "/")[1]
        hosted == /\ Len(first) < Len(base)
                  /\ \E i \in 1..Len(first) : first[i] \in {".", ":"}
        repo == IF hosted THEN SubSeq(base, Len(first) + 2, Len(base)) ELSE base
        registry == IF hosted THEN first ELSE DefaultRegistry
    IN  IF \/ tagged /\ last = <<>>
           \/ tagged /\ \E i \in 1..Len(last) : last[i] \notin TagChars
           \/ Len(repo) < 2
           \/ \E i \in 1..Len(repo) : repo[i] \notin RepositoryChars
        THEN BadReference
        ELSE ParsedReference(
                 registry,
                 IF ~hosted /\ ~strings_Contains(repo, <<"/">>)
                 THEN DefaultNamespace \o <<"/">> \o repo
                 ELSE repo,
                 IF tagged THEN last ELSE S_latest)

\* line 31: the lines the loop passes over, after line 30 has trimmed them
LineSkipped(line) == line = <<>> \/ strings_HasPrefix(line, <<"#">>)

\* a mistaken DirectiveArchs: the directive is not read
DirectiveArchs_Ignored(line) == <<>>

\* lines 35-47: archs after the directive of a trimmed line has been read
DirectiveArchs(line) ==
    LET i == strings_Index(line, archDirectivePrefix)
        archPart == strings_TrimSpace(
                        SubSeq(line, i + Len(archDirectivePrefix) + 1, Len(line)))
        tokens == strings_SplitSep(strings_SplitSep(archPart, " ")[1], ",")
        trimmed == [k \in 1..Len(tokens) |-> strings_TrimSpace(tokens[k])]
    IN  IF i < 0 \/ archPart = <<>> THEN <<>>
        ELSE SelectSeq(trimmed, LAMBDA arch : arch # <<>>)

\* lines 36 and 48: what is left of a trimmed line for name.ParseReference
ReferenceText(line) ==
    LET i == strings_Index(line, archDirectivePrefix)
    IN  IF i >= 0 THEN strings_TrimSpace(SubSeq(line, 1, i)) ELSE line

\* lines 58-60: the architectures of an entry
ArchsOrDefault(archs) == IF Len(archs) = 0 THEN defaultArchitectures ELSE archs

\* what parseImageList returns: the entries, or an error with the line it names
Parsed(entries) == [failedLine |-> 0, Entries |-> entries]

ParseFailure(n) == [failedLine |-> n, Entries |-> <<>>]

\* lines 29-70: the loop over the lines from line n on, entries being the
\* results the lines before have appended
RECURSIVE ParseLoop(_, _, _)
ParseLoop(lines, n, entries) ==
    IF n > Len(lines) THEN Parsed(entries)
    ELSE LET line == strings_TrimSpace(lines[n])
             ref == name_ParseReference(ReferenceText(line))
         IN  IF LineSkipped(line) \/ ReferenceText(line) = <<>>
             THEN ParseLoop(lines, n + 1, entries)
             ELSE IF ~ref.ok THEN ParseFailure(n)
             ELSE ParseLoop(lines, n + 1,
                      Append(entries,
                             ImageEntry(ref.Registry, ref.Repository,
                                        <<ref.Identifier>>,
                                        ArchsOrDefault(DirectiveArchs(line)))))

\* lines 25-73
parseImageList(raw) == ParseLoop(strings_SplitSep(raw, "\n"), 1, <<>>)

\* lines 17-23: cfg.Images is not read
ResolveImages(cfg) == parseImageList(cfg.ImageList)

\* the lines an image_list is written with: a blank line, a comment, a name,
\* a name with a registry (with and without a tag), a name with a directive
\* of two tokens, a name with a directive of no token, and a name that is no
\* reference
L_blank == <<>>

L_comment == <<" ", "#", "a", "b">>

L_plain == <<"a", "b">>

L_tagged == <<"r", ".", "t", "/", "a", "b", ":", "b">>

L_hosted == <<"r", ".", "t", "/", "a", "b">>

L_archs == <<"a", "b", " ", "#", "a", "r", "c", "h", "=", "x", ",", "y">>

L_noarchs == <<"r", ".", "t", "/", "a", "b", " ", "#", "a", "r", "c", "h", "=">>

L_bad == <<"A", "b">>

Lines == {L_blank, L_comment, L_plain, L_tagged, L_hosted, L_archs, L_noarchs, L_bad}

\* the entries under images: the repository r.t/ab without tags and with the
\* tag latest
ExplicitEntries ==
    {ImageEntry(<<"r", ".", "t">>, <<"a", "b">>, <<>>, <<>>),
     ImageEntry(<<"r", ".", "t">>, <<"a", "b">>, <<S_latest>>, <<>>)}

S_harbor == <<"h", "a", "r", "b", "o", "r">>

\* strings.ToLower(s)
strings_ToLower(s) ==
    [i \in 1..Len(s) |-> CASE s[i] = "H" -> "h" [] s[i] = "A" -> "a" [] OTHER -> s[i]]

\* source.registry of the configuration
S_source == <<"h", "t", "t", "p", ":", "/", "/", "s", ".", "t", "/">>

\* config.MigrateConfig by the fields migrateCmd.Run reads before the loop
MigrateConfig(registry, type, imageList, explicit) ==
    [readable |-> TRUE,
     Source |-> [Registry |-> S_source],
     Destination |-> [Registry |-> registry, Type |-> type],
     ImageList |-> imageList,
     Images |-> explicit]

\* a file config.LoadConfig returns an error for
Unreadable ==
    [readable |-> FALSE,
     Source |-> [Registry |-> <<>>],
     Destination |-> [Registry |-> <<>>, Type |-> <<>>],
     ImageList |-> <<>>,
     Images |-> <<>>]

ConfigFiles ==
    {Unreadable} \cup
    {MigrateConfig(r, t, JoinLines(ls), ex) :
        r \in {<<>>, <<"h">>},
        t \in {<<>>, <<"H", "a", "r", "b", "o", "r">>},
        ls \in SeqsUpTo(Lines, MaxLines),
        ex \in SeqsUpTo(ExplicitEntries, MaxExplicit)}

\* the error handleError ends the process with
ExitError(what, line) == [what |-> what, line |-> line]

\* lines 49-66: harborClient != nil
HarborEnabled(cfg) == strings_ToLower(cfg.Destination.Type) = S_harbor

\* strings.TrimPrefix(s, prefix)
strings_TrimPrefix(s, prefix) ==
    IF strings_HasPrefix(s, prefix) THEN SubSeq(s, Len(prefix) + 1, Len(s)) ELSE s

\* migrate.go lines 213-217
normalizeURL(u) ==
    strings_TrimSuffix(strings_TrimPrefix(strings_TrimPrefix(u, S_http), S_https))

\* a call of a network-facing operation: which one, on which host, for what
NetCall(op, on, what) == [op |-> op, on |-> on, what |-> what]

\* lines 111-114
TargetOf(image) == IF image.TargetName = <<>> THEN image.Name ELSE image.TargetName

\* lines 117-134: the EnsureProject call for an image, none when the project
\* was checked for an image before
EnsureCallFor(cfg, image, before) ==
    LET parts == strings_Split(TargetOf(image))
        call == NetCall("EnsureProject", NewClient_BaseURL(cfg.Destination.Registry),
                        parts[1])
    IN  IF /\ HarborEnabled(cfg)
           /\ Len(parts) > 1
           /\ \A k \in 1..Len(before) : before[k] # call
        THEN <<call>>
        ELSE <<>>

\* lines 137-147: the ListTags call for an image without tags
ListCallFor(image) ==
    IF Len(image.Tags) = 0
    THEN <<NetCall("ListTags", normalizeURL(image.Registry), image.Name)>>
    ELSE <<>>

\* lines 154-200: the CopyImage calls for the tags of an image
CopyCallsFor(cfg, image) ==
    [k \in 1..Len(image.Tags) |->
        NetCall("CopyImage", normalizeURL(cfg.Destination.Registry),
                TargetOf(image) \o <<":">> \o image.Tags[k])]

\* a srcClients that never has the key
ClientCached_Never(cache, key) == FALSE

\* line 96: srcClient, ok := srcClients[registryURL]
ClientCached(cache, key) == \E c \in cache : c.key = key

\* lines 90-94: the registry of the image, the default source when it names
\* none, normalized
SourceRegistryURL(cfg, image) ==
    normalizeURL(IF image.Registry = <<>> THEN cfg.Source.Registry ELSE image.Registry)

\* a client registry.NewClient returned: what it was made for, and its URL
MadeClient(role, url) == [role |-> role, url |-> url]

InitResolve ==
    /\ CopyIdle
    /\ ListIdle
    /\ PoolIdle
    /\ MigrateIdle
    /\ HarborIdle
    /\ ProxyIdle
    /\ FeedIdle
    /\ CredsIdle
    /\ srcClients = {}
    /\ clientsMade = <<>>
    /\ srcUsed = <<>>
    /\ configPath \in {<<>>, <<"c">>}
    /\ cfgFile \in ConfigFiles
    /\ proxyParses \in BOOLEAN
    /\ rpc = "load"
    /\ images = <<>>
    /\ rIx = 0
    /\ netCalls = <<>>
    /\ exitErr = NotExited

\* handleError with an error: os.Exit(1)
Exit(e) == rpc' = "exit" /\ exitErr' = e

\* lines 25-31: the check of configPath and config.LoadConfig
LoadConfig ==
    /\ rpc = "load"
    /\ IF configPath = <<>> THEN Exit(ExitError("config path", 0))
       ELSE IF ~cfgFile.readable THEN Exit(ExitError("load config", 0))
       ELSE rpc' = "resolve" /\ exitErr' = exitErr
    /\ UNCHANGED <<configPath, cfgFile, proxyParses, images, rIx, netCalls,
                   srcClients, clientsMade, srcUsed, outsideResolve>>

\* lines 33-34: cfg.ResolveImages()
RunResolveImages ==
    /\ rpc = "resolve"
    /\ LET r == ResolveImages(cfgFile)
       IN  IF r.failedLine > 0
           THEN Exit(ExitError("image_list", r.failedLine)) /\ images' = r.Entries
           ELSE rpc' = "clients" /\ exitErr' = exitErr /\ images' = r.Entries
    /\ UNCHANGED <<configPath, cfgFile, proxyParses, rIx, netCalls, srcClients,
                   clientsMade, srcUsed, outsideResolve>>

\* lines 49-86: harbor.NewClient and registry.NewClient, which fail when
\* url.Parse rejects the proxy flag and make no request
NewClients ==
    /\ rpc = "clients"
    /\ IF ~proxyParses
       THEN Exit(ExitError("proxy", 0)) /\ rIx' = rIx /\ clientsMade' = clientsMade
       ELSE /\ rpc' = (IF images = <<>> THEN "summary" ELSE "image")
            /\ rIx' = 1
            /\ exitErr' = exitErr
            /\ clientsMade' = Append(clientsMade,
                    MadeClient("dst", normalizeURL(cfgFile.Destination.Registry)))
    /\ UNCHANGED <<configPath, cfgFile, proxyParses, images, netCalls, srcClients,
                   srcUsed, outsideResolve>>

\* lines 88-201, for the image at hand: its source client, from srcClients
\* or made and cached there (registry.NewClient fails on the proxy flag only,
\* which the destination client was made with), and the calls it makes of
\* EnsureProject, ListTags and CopyImage
MigrateImage ==
    /\ rpc = "image"
    /\ LET registryURL == SourceRegistryURL(cfgFile, images[rIx])
       IN  IF ClientCached(srcClients, registryURL)
           THEN /\ srcUsed' = Append(srcUsed,
                        (CHOOSE c \in srcClients : c.key = registryURL).client)
                /\ UNCHANGED <<srcClients, clientsMade>>
           ELSE /\ clientsMade' = Append(clientsMade, MadeClient("src", registryURL))
                /\ srcClients' = srcClients \cup
                        {[key |-> registryURL, client |-> Len(clientsMade) + 1]}
                /\ srcUsed' = Append(srcUsed, Len(clientsMade) + 1)
    /\ netCalls' = netCalls \o EnsureCallFor(cfgFile, images[rIx], netCalls)
                            \o ListCallFor(images[rIx])
                            \o CopyCallsFor(cfgFile, images[rIx])
    /\ IF rIx < Len(images)
       THEN rIx' = rIx + 1 /\ rpc' = rpc
       ELSE rIx' = rIx /\ rpc' = "summary"
    /\ UNCHANGED <<configPath, cfgFile, proxyParses, images, exitErr, outsideResolve>>

\* lines 203-204
PrintSummary ==
    /\ rpc = "summary"
    /\ rpc' = "end"
    /\ UNCHANGED <<configPath, cfgFile, proxyParses, images, rIx, netCalls, exitErr,
                   srcClients, clientsMade, srcUsed, outsideResolve>>

NextResolve ==
    \/ LoadConfig
    \/ RunResolveImages
    \/ NewClients
    \/ MigrateImage
    \/ PrintSummary

SpecResolve == InitResolve /\ [][NextResolve]_vars

(* ------------------------------------------------------------------ *)
(* What the claims about the configuration speak of                   *)
(* ------------------------------------------------------------------ *)

\* the lines of the image_list of the configuration
TextLines == strings_SplitSep(cfgFile.ImageList, "\n")

\* what each line of Lines is, read by eye: blank or a comment; no image
\* reference; the tag it names; the tokens of its directive; its repository
BlankOrComment(l) == l \in {L_blank, L_comment}

NoReference(l) == l = L_bad

NamedTag(l) == IF l = L_tagged THEN <<"b">> ELSE <<>>

DirectiveTokens(l) == IF l = L_archs THEN <<<<"x">>, <<"y">>>> ELSE <<>>

RepositoryOf(l) ==
    IF l \in {L_plain, L_archs}
    THEN <<DefaultRegistry, DefaultNamespace \o <<"/", "a", "b">>>>
    ELSE <<<<"r", ".", "t">>, <<"a", "b">>>>

EntryLines == SelectSeq(TextLines, LAMBDA l : ~BlankOrComment(l))

BadLines == {n \in 1..Len(TextLines) : NoReference(TextLines[n])}

ExpectedTag(l) == IF NamedTag(l) = <<>> THEN S_latest ELSE NamedTag(l)

ExpectedArchs(l) ==
    IF DirectiveTokens(l) = <<>> THEN <<S_amd64, S_arm64>> ELSE DirectiveTokens(l)

\* the configuration was loaded and cfg.ResolveImages has returned
ResolveRan ==
    /\ configPath # <<>>
    /\ cfgFile.readable
    /\ rpc \notin {"idle", "load", "resolve"}

\* the run has a fatal configuration error: no configuration, a malformed
\* plan, or no destination registry host
FatalConfigError ==
    /\ rpc # "idle"
    /\ \/ configPath = <<>>
       \/ ~cfgFile.readable
       \/ BadLines # {}
       \/ cfgFile.Destination.Registry = <<>>

\* C21: a run with a fatal configuration error makes no call of a
\* network-facing operation (EnsureProject, ListTags, CopyImage).
C21_ConfigErrorStopsBeforeNetwork == FatalConfigError => netCalls = <<>>

\* C22: the resolution of the free-text list gives one entry per line that is
\* neither blank nor a comment, in file order, each with the tag the line
\* names or latest, with the tokens of its own directive or the defaults as
\* its architectures, never none; a line that is no reference ends the run
\* with an error naming the first such line, and no plan.
C22_FreeTextResolution ==
    ResolveRan =>
        IF BadLines = {}
        THEN /\ Len(images) = Len(EntryLines)
             /\ \A k \in 1..Len(EntryLines) :
                    /\ images[k].Tags = <<ExpectedTag(EntryLines[k])>>
                    /\ images[k].Architectures = ExpectedArchs(EntryLines[k])
                    /\ images[k].Architectures # <<>>
                    /\ <<images[k].Registry, images[k].Name>> = RepositoryOf(EntryLines[k])
        ELSE /\ rpc = "exit"
             /\ exitErr = ExitError("image_list", Min(BadLines))
             /\ images = <<>>

\* a list whose first line has a directive and whose second has none was resolved
C22_Witness ==
    /\ ResolveRan
    /\ TextLines = <<L_archs, L_hosted>>
    /\ Len(images) = 2
    /\ images[1].Architectures = <<<<"x">>, <<"y">>>>
    /\ images[2].Architectures = <<S_amd64, S_arm64>>

SameRepository(a, b) == a.Registry = b.Registry /\ a.Name = b.Name

\* the entries of the plan for a repository and a tag
TasksFor(e, tag) ==
    {k \in 1..Len(images) :
        /\ SameRepository(images[k], e)
        /\ \E t \in 1..Len(images[k].Tags) : images[k].Tags[t] = tag}

\* resolution has returned a plan
PlanResolved == ResolveRan /\ BadLines = {}

\* C23: an explicit entry without tags reserves its repository: the plan has
\* no other entry for that repository than the explicit entry itself.
C23_TaglessExplicitReservesRepository ==
    PlanResolved =>
        \A x \in 1..Len(cfgFile.Images) :
            cfgFile.Images[x].Tags = <<>> =>
                \A k \in 1..Len(images) :
                    SameRepository(images[k], cfgFile.Images[x]) =>
                        images[k] = cfgFile.Images[x]

\* C24: no two entries of the plan share a repository and a tag, and every
\* (repository, tag) of an explicit entry with tags has exactly one task.
C24_PlanIsDeduplicated ==
    PlanResolved =>
        /\ \A i, j \in 1..Len(images) :
              (i < j /\ SameRepository(images[i], images[j])) =>
                  \A s \in 1..Len(images[i].Tags), t \in 1..Len(images[j].Tags) :
                      images[i].Tags[s] # images[j].Tags[t]
        /\ \A x \in 1..Len(cfgFile.Images) :
              \A t \in 1..Len(cfgFile.Images[x].Tags) :
                  Cardinality(TasksFor(cfgFile.Images[x], cfgFile.Images[x].Tags[t])) = 1

\* a is b with some of its elements left out
RECURSIVE IsSubsequence(_, _)
IsSubsequence(a, b) ==
    IF a = <<>> THEN TRUE
    ELSE IF b = <<>> THEN FALSE
    ELSE IF Head(a) = Head(b) THEN IsSubsequence(Tail(a), Tail(b))
    ELSE IsSubsequence(a, Tail(b))

\* C25: the plan is the explicit entries in the order given, followed by
\* free-text entries in file order.
C25_ExplicitFirstThenFreeText ==
    PlanResolved =>
        /\ IsPrefix(cfgFile.Images, images)
        /\ IsSubsequence(SubSeq(images, Len(cfgFile.Images) + 1, Len(images)),
                         parseImageList(cfgFile.ImageList).Entries)

(* ------------------------------------------------------------------ *)
(* NewClient: the proxy and the no-proxy list                         *)
(* ------------------------------------------------------------------ *)

\* the most entries of a no-proxy flag
MaxNoProxy == 2

\* the most requests sent through a client
MaxRequests == 1

\* strings.HasSuffix(s, suffix)
strings_HasSuffix(s, suffix) ==
    Len(s) >= Len(suffix) /\ SubSeq(s, Len(s) - Len(suffix) + 1, Len(s)) = suffix

\* the entries a no-proxy flag is written with, joined by commas
RECURSIVE JoinCommas(_)
JoinCommas(es) ==
    IF es = <<>> THEN <<>>
    ELSE IF Len(es) = 1 THEN es[1]
    ELSE es[1] \o <<",">> \o JoinCommas(Tail(es))

\* the proxy flag: none, a URL, and a string url.Parse rejects
ProxyURLs == {<<>>, <<"p">>, <<":">>}

\* url.Parse(proxyURL) returns an error
url_Parse_Fails(u) == u # <<>> /\ u[1] = ":"

\* the no-proxy flag: up to MaxNoProxy entries among nothing, a domain, the
\* domain after a space, and a subdomain of it
NoProxyEntries == {<<>>, <<"t">>, <<" ", "t">>, <<"a", ".", "t">>}

NoProxyFlags == {JoinCommas(es) : es \in SeqsUpTo(NoProxyEntries, MaxNoProxy)}

\* req.URL.Hostname() of the requests: the domain, a subdomain, a subdomain of
\* the subdomain, a name that only ends like the domain, the domain with its
\* trailing dot, and another name
Hostnames ==
    {<<"t">>, <<"a", ".", "t">>, <<"b", ".", "a", ".", "t">>, <<"a", "t">>,
     <<"t", ".">>, <<"x">>}

\* lines 131-134: noProxyList
TrimmedList(flag) ==
    LET pieces == strings_SplitSep(flag, ",")
    IN  [i \in 1..Len(pieces) |-> strings_TrimSpace(pieces[i])]

\* a mistaken line 142: the suffix without the dot
HostMatches_NoDot(host, np) == host = np \/ strings_HasSuffix(host, np)

\* line 142: host == np || strings.HasSuffix(host, "."+np)
HostMatches(host, np) == host = np \/ strings_HasSuffix(host, <<".">> \o np)

\* a mistaken lines 139-141: empty entries are not passed over
EntryPassedOver_Never(np) == FALSE

\* lines 139-141: if np == "" { continue }
EntryPassedOver(np) == np = <<>>

\* lines 136-147: what the Proxy function returns for a request
RECURSIVE Proxy(_, _)
Proxy(host, list) ==
    IF list = <<>> THEN "proxy"
    ELSE IF ~EntryPassedOver(Head(list)) /\ HostMatches(host, Head(list)) THEN "direct"
    ELSE Proxy(host, Tail(list))

InitProxy ==
    /\ CopyIdle
    /\ ListIdle
    /\ PoolIdle
    /\ MigrateIdle
    /\ HarborIdle
    /\ ResolveIdle
    /\ FeedIdle
    /\ proxyURL \in ProxyURLs
    /\ noProxy \in NoProxyFlags
    /\ xpc = "new"
    /\ noProxyList = <<>>
    /\ routes = <<>>

\* normalize.go lines 113-156 (and harbor/client.go lines 24-69, which has the
\* same statements): the transport of the new client has the Proxy function
\* of lines 136-147 when proxyURL is given, and is left as it is otherwise
NewClient ==
    /\ xpc = "new"
    /\ IF proxyURL = <<>> THEN xpc' = "plain" /\ noProxyList' = noProxyList
       ELSE IF url_Parse_Fails(proxyURL) THEN xpc' = "failed" /\ noProxyList' = noProxyList
       ELSE xpc' = "proxied" /\ noProxyList' = TrimmedList(noProxy)
    /\ UNCHANGED <<proxyURL, noProxy, routes, outsideProxy>>

\* a request is sent through the client: the transport calls Proxy
SendRequest ==
    /\ xpc \in {"plain", "proxied"}
    /\ Len(routes) < MaxRequests
    /\ \E host \in Hostnames :
        routes' = Append(routes,
                         [host |-> host,
                          via |-> IF xpc = "proxied" THEN Proxy(host, noProxyList)
                                  ELSE "unset"])
    /\ UNCHANGED <<proxyURL, noProxy, xpc, noProxyList, outsideProxy>>

NextProxy ==
    \/ NewClient
    \/ SendRequest

SpecProxy == InitProxy /\ [][NextProxy]_vars

\* the entries of the no-proxy flag, without the spaces around them
FlagEntries ==
    LET pieces == strings_SplitSep(noProxy, ",")
    IN  {strings_TrimSpace(pieces[i]) : i \in 1..Len(pieces)}

\* host is entry, or ends with a dot followed by entry
EqualsOrSubdomain(host, entry) ==
    \/ host = entry
    \/ /\ Len(host) > Len(entry)
       /\ host[Len(host) - Len(entry)] = "."
       /\ \A k \in 1..Len(entry) : host[Len(host) - Len(entry) + k] = entry[k]

\* C28: through a client made with a proxy, a request goes directly exactly
\* when its host equals a non-empty entry of the no-proxy list or ends with a
\* dot followed by one, and through the proxy otherwise.
C28_DirectIffNoProxyEntry ==
    \A r \in 1..Len(routes) :
        xpc = "proxied" =>
            /\ routes[r].via \in {"direct", "proxy"}
            /\ routes[r].via = "direct" <=>
                   \E entry \in FlagEntries :
                       entry # <<>> /\ EqualsOrSubdomain(routes[r].host, entry)

\* a request to a subdomain of an entry went directly, with an empty entry in
\* the list
C28_Witness ==
    /\ xpc = "proxied"
    /\ noProxy = <<",", " ", "t">>
    /\ Len(routes) = 1
    /\ routes[1] = [host |-> <<"b", ".", "a", ".", "t">>, via |-> "direct"]

(* ------------------------------------------------------------------ *)
(* migrateCmd.Run: the tags of one image, each with its two goroutines *)
(* ------------------------------------------------------------------ *)

\* the most tags of the image
MaxFeedTags == 2

\* tagsToMigrate of the image: tags told apart by their position
FeedPlans == {[i \in 1..n |-> i] : n \in 0..MaxFeedTags}

\* a mistaken close(updates): the close is left out
UpdatesClosedAfter_NoClose(alreadyClosed) == alreadyClosed

\* lines 178-184: after close(updates) under the deferred recover the channel
\* is closed, whether the library had closed it before (the close panics and
\* the panic is recovered) or not
UpdatesClosedAfter(alreadyClosed) == TRUE

\* lines 158-187 for one tag: the channels updates (unbuffered) and errCh (one
\* slot), the bar, the goroutine of lines 166-173 (the listener, at lpc) and
\* the goroutine of lines 175-187 (the copier, at gpc). err is TRUE for a
\* non-nil error of CopyImage, from its return to the send on errCh; recovered
\* tells that close(updates) panicked;
\* finished that bar.Finish was called; late that the listener has updated
\* the bar after bar.Finish
Feed(tag) ==
    [tag |-> tag, gpc |-> "copy", err |-> FALSE, closed |-> FALSE,
     recovered |-> FALSE, errCh |-> <<>>, lpc |-> "range", finished |-> FALSE,
     late |-> FALSE]

WithFeed(k, f) == [feeds EXCEPT ![k] = f]

InitFeed ==
    /\ CopyIdle
    /\ ListIdle
    /\ PoolIdle
    /\ MigrateIdle
    /\ HarborIdle
    /\ ResolveIdle
    /\ ProxyIdle
    /\ feedPlan \in FeedPlans
    /\ fpc = "tag"
    /\ fIx = 1
    /\ feeds = <<>>

\* lines 155-187: the next tag: the channels, the bar and the two go
\* statements; line 189 then waits for errCh. After the last tag, lines 203-204
FeedStart ==
    /\ fpc = "tag"
    /\ IF fIx <= Len(feedPlan)
       THEN feeds' = Append(feeds, Feed(feedPlan[fIx])) /\ fpc' = "wait"
       ELSE feeds' = feeds /\ fpc' = "summary"
    /\ UNCHANGED <<feedPlan, fIx, outsideFeed>>

\* normalize.go lines 342, 352, 378: remote.Write or remote.WriteIndex, given
\* remote.WithProgress(progressCh), comes to send an update on the unbuffered
\* channel and waits there for the receiver; it may do so any number of times
LibraryOffers(k) ==
    /\ feeds[k].gpc = "copy"
    /\ feeds' = WithFeed(k, [feeds[k] EXCEPT !.gpc = "sending"])
    /\ UNCHANGED <<feedPlan, fpc, fIx, outsideFeed>>

\* line 167: the listener receives the update the library is sending, which
\* lets the library go on
ListenerReceives(k) ==
    /\ feeds[k].gpc = "sending"
    /\ feeds[k].lpc = "range"
    /\ feeds' = WithFeed(k, [feeds[k] EXCEPT !.gpc = "copy", !.lpc = "set"])
    /\ UNCHANGED <<feedPlan, fpc, fIx, outsideFeed>>

\* line 176: registry.CopyImage returns, with or without an error; the library
\* has closed the progress channel or has left it open
CopyReturns(k) ==
    /\ feeds[k].gpc = "copy"
    /\ \E e \in BOOLEAN, c \in BOOLEAN :
        feeds' = WithFeed(k, [feeds[k] EXCEPT !.gpc = "close", !.err = e,
                                               !.closed = @ \/ c])
    /\ UNCHANGED <<feedPlan, fpc, fIx, outsideFeed>>

\* lines 178-184: close(updates) under the deferred recover
CopierCloses(k) ==
    /\ feeds[k].gpc = "close"
    /\ feeds' = WithFeed(k, [feeds[k] EXCEPT
                                !.gpc = "send",
                                !.recovered = feeds[k].closed,
                                !.closed = UpdatesClosedAfter(feeds[k].closed)])
    /\ UNCHANGED <<feedPlan, fpc, fIx, outsideFeed>>

\* line 186: errCh <- err, which the one slot of errCh takes at once
CopierSends(k) ==
    /\ feeds[k].gpc = "send"
    /\ feeds' = WithFeed(k, [feeds[k] EXCEPT !.gpc = "done", !.err = FALSE,
                                               !.errCh = <<feeds[k].err>>])
    /\ UNCHANGED <<feedPlan, fpc, fIx, outsideFeed>>

\* lines 168-171: bar.ChangeMax64 and bar.Set64 for the update received
ListenerSets(k) ==
    /\ feeds[k].lpc = "set"
    /\ feeds' = WithFeed(k, [feeds[k] EXCEPT !.lpc = "range",
                                               !.late = @ \/ feeds[k].finished])
    /\ UNCHANGED <<feedPlan, fpc, fIx, outsideFeed>>

\* line 167: the range over updates ends when the channel is closed
ListenerExits(k) ==
    /\ feeds[k].lpc = "range"
    /\ feeds[k].closed
    /\ feeds' = WithFeed(k, [feeds[k] EXCEPT !.lpc = "exit"])
    /\ UNCHANGED <<feedPlan, fpc, fIx, outsideFeed>>

\* lines 189-200: err = <-errCh, bar.Finish(), the count, and on to the next
\* tag; nothing waits for the listener
ReceiveAndFinish ==
    /\ fpc = "wait"
    /\ feeds[fIx].errCh # <<>>
    /\ feeds' = WithFeed(fIx, [feeds[fIx] EXCEPT !.errCh = <<>>, !.finished = TRUE])
    /\ fIx' = fIx + 1
    /\ fpc' = "tag"
    /\ UNCHANGED <<feedPlan, outsideFeed>>

NextFeed ==
    \/ FeedStart
    \/ \E k \in 1..Len(feeds) : LibraryOffers(k)
    \/ \E k \in 1..Len(feeds) : ListenerReceives(k)
    \/ \E k \in 1..Len(feeds) : CopyReturns(k)
    \/ \E k \in 1..Len(feeds) : CopierCloses(k)
    \/ \E k \in 1..Len(feeds) : CopierSends(k)
    \/ \E k \in 1..Len(feeds) : ListenerSets(k)
    \/ \E k \in 1..Len(feeds) : ListenerExits(k)
    \/ ReceiveAndFinish

SpecFeed == InitFeed /\ [][NextFeed]_vars

\* the Go scheduler runs every goroutine that can take a step: the copier, the
\* listener and the command take their next step when they can. Every network
\* operation returns: CopyImage, which can return whenever it is not waiting
\* to send an update, does return (strong fairness: it does not send updates
\* forever)
FairFeed ==
    /\ WF_vars(FeedStart)
    /\ WF_vars(ReceiveAndFinish)
    /\ \A k \in 1..MaxFeedTags :
        /\ SF_vars(k <= Len(feeds) /\ CopyReturns(k))
        /\ WF_vars(k <= Len(feeds) /\ CopierCloses(k))
        /\ WF_vars(k <= Len(feeds) /\ CopierSends(k))
        /\ WF_vars(k <= Len(feeds) /\ ListenerReceives(k))
        /\ WF_vars(k <= Len(feeds) /\ ListenerSets(k))
        /\ WF_vars(k <= Len(feeds) /\ ListenerExits(k))

SpecFeedFair == InitFeed /\ [][NextFeed]_vars /\ FairFeed

\* C29: the listener of a tag updates the bar of its tag only before the
\* command has finished that bar and gone on to the next tag.
C29_NoBarUpdateAfterFinish ==
    \A k \in 1..Len(feeds) : ~feeds[k].late

\* every tag of the image was started, the command is at the summary, and
\* every listener has left its loop
AllTagsWoundUp ==
    /\ fpc = "summary"
    /\ Len(feeds) = Len(feedPlan)
    /\ \A k \in 1..Len(feeds) :
        /\ feeds[k].finished
        /\ feeds[k].lpc = "exit"
        /\ feeds[k].gpc = "done"

\* C30: every run comes to the summary with every tag's error received and
\* every listener out of its loop, and stays there.
C30_EveryTagCompletes == <>[]AllTagsWoundUp

\* two tags were wound up: for the first the library had closed the channel
\* and the copier's close panicked, for the second the copier closed it
C30_Witness ==
    /\ AllTagsWoundUp
    /\ Len(feeds) = 2
    /\ feeds[1].recovered
    /\ ~feeds[2].recovered

(* ------------------------------------------------------------------ *)
(* The enumeration ends                                               *)
(* ------------------------------------------------------------------ *)

\* no worker at line 111 finds resultsCh full
NoSendBlocks == pool.send > 0 => pool.resultsCh < resultsCh_Capacity(pool.n)

\* every worker got its token and returned, resultsCh is closed and drained
\* of one result per tag, and the loop over it has ended
EnumerationEnded ==
    /\ pool.acquire = 0
    /\ pool.done = pool.n
    /\ pool.sem = 0
    /\ drain.closed
    /\ drain.received = pool.n
    /\ drain.lpc = "rows"

\* C31: when every fetch returns, the enumeration ends for any number of
\* tags, more than ten included: no worker is ever blocked delivering its
\* result, every worker gets a token from sem, and the loop over resultsCh
\* ends after the close with every result received.
C31_EnumerationTerminates == [](NoSendBlocks) /\ <>[]EnumerationEnded

\* twelve tags, some of them with a failed fetch: all of the results were
\* received and the loop has ended
C31_Witness ==
    /\ pool.n = 12
    /\ pool.failed
    /\ EnumerationEnded

(* ------------------------------------------------------------------ *)
(* The single-image path against the index path                       *)
(* ------------------------------------------------------------------ *)

\* the platform a single image declares in its config file
DeclaredPlatform == [OS |-> src.Config.OS, Architecture |-> src.Config.Architecture]

\* an index child with the platform of the single image would be retained
ChildWouldBeRetained ==
    \E k \in 1..Len(platforms) : TokenMatchesPlatform(platforms[k], DeclaredPlatform)

\* the single image has passed line 376 and goes, or went, to remote.Write
AcceptedForPush == pc = "writeImage" \/ Pushed("writeImage")

\* C32: for a single image and a non-empty filter, the image is accepted
\* for push exactly when an index child with the same os and architecture
\* would be retained: accepted only if some token is a substring of its
\* architecture or of its os/arch string, and refused with the platform
\* mismatch only if no token is.
C32_SingleImageSameRuleAsIndex ==
    (~SourceIsIndex /\ FilterGiven /\ pc \in {"writeImage", "done"}) =>
        /\ AcceptedForPush => ChildWouldBeRetained
        /\ err.kind = "PlatformMismatch" => ~ChildWouldBeRetained

(* ------------------------------------------------------------------ *)
(* The order and the multiplicity of the filter tokens                *)
(* ------------------------------------------------------------------ *)

\* the filters made of the tokens of f in any order, and f with one of its
\* tokens repeated
Rearrangements(f) ==
    {[i \in 1..Len(f) |-> f[p[i]]] : p \in Permutations(1..Len(f))}
        \cup {Append(f, f[i]) : i \in 1..Len(f)}

\* the kept list CopyImage builds from the source index under the filter f
KeptUnder(f) == KeepLoop(src.Manifest.Manifests, f)

\* the digest of what CopyImage pushes for the kept list k
DigestPushedFor(k) ==
    IF FilterOutcome(k) = "single" THEN k[1].Digest
    ELSE filteredIndex_Digest(NewFilteredIndex(RemoteIndex(src), k))

\* C33: once the filter loop has run over an index, every filter with the
\* same tokens in another order, or with a token repeated, gives the kept
\* list of this call, hence the same branch (error, single image, filtered
\* index); and the digest this call pushes is the one of that kept list.
C33_FilterOrderIndependent ==
    (SourceIsIndex /\ FilterGiven /\ FilterEvaluated) =>
        /\ \A g \in Rearrangements(platforms) :
            LET k == KeptUnder(g)
            IN  /\ k = kept
                /\ (FilterOutcome(k) = "nomatch") <=> (err.kind = "NoMatchingPlatform")
                /\ (FilterOutcome(k) = "filtered") <=> (idx[1].filtered)
                /\ \A i \in 1..Len(pushes) :
                        pushes[i].op = "writeImage" <=> FilterOutcome(k) = "single"
        /\ \A i \in 1..Len(pushes) : pushes[i].obj.Digest = DigestPushedFor(kept)

\* two tokens given in the reverse of the order of the children they match,
\* the second child matched by both: the filtered index was pushed
C33_Witness ==
    /\ platforms = <<S_64, S_linux_amd64>>
    /\ Len(src.Manifest.Manifests) = 3
    /\ src.Manifest.Manifests[1].Platform = <<P_linux_arm64_v8>>
    /\ src.Manifest.Manifests[2].Platform = <<P_linux_amd64>>
    /\ src.Manifest.Manifests[3].Platform = <<P_unknown>>
    /\ Len(kept) = 2
    /\ pc = "done"
    /\ Len(pushes) = 1
    /\ pushes[1].ok
    /\ pushes[1].op = "writeIndex"
    /\ Cardinality(Rearrangements(platforms)) = 4

(* ------------------------------------------------------------------ *)
(* Check failures that are not downgraded                             *)
(* ------------------------------------------------------------------ *)

\* the error of the first checkProjectExists of the call the client c is
\* in after that check, or has just returned from
FirstCheckError(c) ==
    IF c.hpc = "idle" THEN c.calls[Len(c.calls)].checkErrs[1] ELSE c.checkErrs[1]

\* the first check of a call failed, and not with a scheme mismatch on an
\* https base URL
FailedWithoutDowngrade(before, after) ==
    /\ before.hpc = "check"
    /\ after # before
    /\ FirstCheckError(after) # "none"
    /\ ~(FirstCheckError(after) = "mismatch" /\ strings_HasPrefix(before.BaseURL, S_https))

\* C34: when the existence check fails with anything but a scheme mismatch,
\* or with a scheme mismatch while the base URL is plain http, EnsureProject
\* returns that error at once: one check made, no create request, the base
\* URL and the server's projects as they were.
C34_OtherFailuresNotRetried ==
    [][\A i \in Callers :
        FailedWithoutDowngrade(clients[i], clients'[i]) =>
            LET r == clients'[i].calls[Len(clients'[i].calls)]
            IN  /\ clients'[i].hpc = "idle"
                /\ Len(clients'[i].calls) = Len(clients[i].calls) + 1
                /\ r.err = FirstCheckError(clients'[i])
                /\ r.checkURLs = <<clients[i].BaseURL>>
                /\ r.createURLs = <<>>
                /\ clients'[i].BaseURL = clients[i].BaseURL
                /\ clients'[i].downgrades = clients[i].downgrades
                /\ serverProjects' = serverProjects]_vars

\* a caller with a plain http base URL whose two calls failed in their one
\* check, with a scheme mismatch and with an authentication failure
C34_Witness ==
    /\ clients[1].BaseURL = S_http \o <<"h">>
    /\ clients[1].hpc = "idle"
    /\ Len(clients[1].calls) = 2
    /\ clients[1].calls[1].checkErrs = <<"mismatch">>
    /\ clients[1].calls[1].err = "mismatch"
    /\ clients[1].calls[1].createURLs = <<>>
    /\ clients[1].calls[2].checkErrs = <<"unauthorized">>
    /\ clients[1].calls[2].err = "unauthorized"
    /\ clients[1].downgrades = 0

(* ------------------------------------------------------------------ *)
(* A failing EnsureProject                                            *)
(* ------------------------------------------------------------------ *)

\* the images of the plan whose destination is in the project p
ImagesOfProject(p) ==
    {i \in 1..Len(plan) : HasProject(DstName(plan[i])) /\ ProjectOf(DstName(plan[i])) = p}

\* the image at which EnsureProject is called for the project p: the first
\* of the plan in that project
FirstImageOf(p) == CHOOSE i \in ImagesOfProject(p) : \A j \in ImagesOfProject(p) : i <= j

\* the tags of the image i were resolved, and a copy was started for each
CopiesAttempted(i) ==
    /\ Len(listings) >= i
    /\ listings[i].ok =>
        \A k \in 1..Len(listings[i].tags) :
            \E a \in 1..Len(attempts) :
                attempts[a] = [image |-> i, tag |-> listings[i].tags[k]]

\* C35: an EnsureProject that returns an error neither ends the run nor is
\* tried again: its project is in checkedProjects all the same, no other
\* call is made for that project, and at the end of the run the image it
\* was called for, like every later image of that project, has had its tags
\* resolved and a copy started for each of them.
C35_FailedEnsureGoesOn ==
    \A c \in 1..Len(ensureCalls) :
        ~ensureCalls[c].ok =>
            LET p == ensureCalls[c].project
            IN  /\ ~crashed
                /\ p \in checkedProjects
                /\ \A d \in 1..Len(ensureCalls) : ensureCalls[d].project = p => d = c
                /\ ImagesOfProject(p) # {}
                /\ imgIx >= FirstImageOf(p)
                /\ mpc = "end" => \A i \in ImagesOfProject(p) : CopiesAttempted(i)

\* two images of the project t, the call for the first failed: both images
\* were copied, four tags in all, after the one call
C35_Witness ==
    /\ mpc = "end"
    /\ harborOn
    /\ Len(plan) = 2
    /\ ImagesOfProject(<<"t">>) = {1, 2}
    /\ ensureCalls = <<[project |-> <<"t">>, ok |-> FALSE]>>
    /\ checkedProjects = {<<"t">>}
    /\ Len(attempts) = 4
    /\ attempts[1].image = 1
    /\ attempts[4].image = 2

(* ------------------------------------------------------------------ *)
(* The ensure step comes before the listing and the copies            *)
(* ------------------------------------------------------------------ *)

\* the destination repository has text before a first "/"
HasNamespace(dstName) == \E k \in 2..Len(dstName) : dstName[k] = "/"

\* the text before the first "/"
NamespaceOf(dstName) ==
    SubSeq(dstName, 1, (CHOOSE k \in 1..Len(dstName) :
                            dstName[k] = "/" /\ \A j \in 1..(k - 1) : dstName[j] # "/") - 1)

\* the image i is one the ensure step applies to
NeedsNamespace(i) == harborOn /\ HasNamespace(DstName(plan[i]))

\* the ensure step for the image i has happened: its namespace is in the
\* checked set, put there by a provisioner call
EnsureStepDone(i) ==
    /\ NamespaceOf(DstName(plan[i])) \in checkedProjects
    /\ \E c \in 1..Len(ensureCalls) : ensureCalls[c].project = NamespaceOf(DstName(plan[i]))

\* C36: for an image that goes to a Harbor destination under a namespace,
\* the ensure step (a call of EnsureProject, or the namespace found in
\* checkedProjects) has happened when its tags are listed and when a copy of
\* it is started; and EnsureProject is only ever called with a Harbor
\* client, for the namespace of an image of the plan whose destination
\* repository has a "/".
C36_EnsureBeforeListAndCopy ==
    /\ [](/\ \A i \in 1..Len(plan) :
                (NeedsNamespace(i) /\ (Len(listings) >= i
                                        \/ \E a \in 1..Len(attempts) : attempts[a].image = i))
                    => EnsureStepDone(i)
          /\ \A c \in 1..Len(ensureCalls) :
                /\ harborOn
                /\ \E i \in 1..Len(plan) :
                    /\ HasNamespace(DstName(plan[i]))
                    /\ ensureCalls[c].project = NamespaceOf(DstName(plan[i])))
    /\ [][(listings' # listings \/ attempts' # attempts) =>
            (NeedsNamespace(imgIx) => EnsureStepDone(imgIx))]_vars
    /\ [][ensureCalls' # ensureCalls =>
            /\ NeedsNamespace(imgIx)
            /\ Len(listings) < imgIx
            /\ \A a \in 1..Len(attempts) : attempts[a].image # imgIx]_vars

\* a Harbor run over an image outside any namespace and then an image in
\* the namespace t with two tags: one call, made for the second image, and
\* three copies
C36_Witness ==
    /\ mpc = "end"
    /\ harborOn
    /\ Len(plan) = 2
    /\ ~HasNamespace(DstName(plan[1]))
    /\ HasNamespace(DstName(plan[2]))
    /\ NamespaceOf(DstName(plan[2])) = <<"t">>
    /\ Len(ensureCalls) = 1
    /\ ensureCalls[1].project = <<"t">>
    /\ Len(attempts) = 3
    /\ attempts[1].image = 1
    /\ attempts[3].image = 2

(* ------------------------------------------------------------------ *)
(* The clients of a run                                               *)
(* ------------------------------------------------------------------ *)

\* the clients made for the role
MadeFor(role) == {c \in 1..Len(clientsMade) : clientsMade[c].role = role}

\* the host the source registry of the k-th image normalizes to
SourceHostOf(k) ==
    normalizeURL(IF images[k].Registry = <<>> THEN cfgFile.Source.Registry
                 ELSE images[k].Registry)

\* the loop over the images has been reached
LoopReached == rpc \in {"image", "summary", "end"}

\* C37: in a run at most one source client is made per normalized source
\* host, and one destination client, made before the loop over the images
\* and never a second; every image is given the client made for the host
\* its source registry normalizes to, so two images of the same host are
\* given the same client.
C37_OneClientPerHost ==
    /\ Cardinality(MadeFor("dst")) <= 1
    /\ LoopReached => MadeFor("dst") = {1}
    /\ \A c, d \in MadeFor("src") : clientsMade[c].url = clientsMade[d].url => c = d
    /\ Len(srcUsed) <= Len(images)
    /\ \A k \in 1..Len(srcUsed) :
        /\ srcUsed[k] \in MadeFor("src")
        /\ clientsMade[srcUsed[k]].url = SourceHostOf(k)
        /\ \A l \in 1..Len(srcUsed) : SourceHostOf(l) = SourceHostOf(k) => srcUsed[l] = srcUsed[k]
    /\ rpc = "end" => Len(srcUsed) = Len(images)

\* two images of the host r.t: one source client, made after the destination
\* client for the first image and given to the second
C37_Witness ==
    /\ rpc = "end"
    /\ Len(images) = 2
    /\ images[1].Registry = <<"r", ".", "t">>
    /\ images[2].Registry = <<"r", ".", "t">>
    /\ images[1] # images[2]
    /\ clientsMade = <<MadeClient("dst", <<"h">>), MadeClient("src", <<"r", ".", "t">>)>>
    /\ srcUsed = <<2, 2>>

(* ------------------------------------------------------------------ *)
(* sourceConfigForRegistry: the credentials of a source registry      *)
(* ------------------------------------------------------------------ *)

\* the most calls of sourceConfigForRegistry over one configuration
MaxLookups == 2

\* config.RegistryConfig, by its registry and its user name
RegistryConfig(registry, username) == [Registry |-> registry, Username |-> username]

S_rt == <<"r", ".", "t">>

\* the keys of source_registries: a host, the same host with a scheme and
\* with a trailing slash, and another host
RegistryKeys == {S_rt, S_http \o S_rt, S_rt \o <<"/">>, <<"o", ".", "t">>}

\* the maps cfg.SourceRegistries may be: a key has one entry; the user name
\* of an entry is one of two, its registry is not set
SourceRegistryMaps ==
    {m \in SUBSET {[key |-> k, cfg |-> RegistryConfig(<<>>, u)] :
                        k \in RegistryKeys, u \in {<<"a">>, <<"b">>}} :
        \A e, f \in m : e.key = f.key => e = f}

\* cfg.Source
DefaultSource == RegistryConfig(S_source, <<"d">>)

\* the registryURL arguments
LookupURLs == {S_rt, S_http \o S_rt, <<"o", ".", "t">>, <<"x", ".", "t">>}

\* lines 236-241
withRegistryFallback(cfg, registryURL) ==
    IF cfg.Registry = <<>> THEN [cfg EXCEPT !.Registry = registryURL] ELSE cfg

\* lines 219-234: the configurations a call may return. The entry under the
\* key registryURL when there is one; otherwise the loop of lines 225-229
\* ranges over the map in the order the Go runtime picks for this range
\* statement and returns at the first key that normalizes to the host, so
\* any entry with such a key may be the one returned; otherwise cfg.Source.
sourceConfigForRegistry(registries, source, registryURL) ==
    LET exact == {e \in registries : e.key = registryURL}
        normalized == {e \in registries : normalizeURL(e.key) = normalizeURL(registryURL)}
    IN  IF exact # {} THEN {withRegistryFallback(e.cfg, registryURL) : e \in exact}
        ELSE IF normalized # {}
             THEN {withRegistryFallback(e.cfg, registryURL) : e \in normalized}
             ELSE {withRegistryFallback(source, registryURL)}

InitCreds ==
    /\ CopyIdle
    /\ ListIdle
    /\ PoolIdle
    /\ MigrateIdle
    /\ HarborIdle
    /\ ProxyIdle
    /\ FeedIdle
    /\ RunIdle
    /\ sourceRegistries \in SourceRegistryMaps
    /\ lookups = <<>>

\* a call of sourceConfigForRegistry, in this run or in another run over
\* the same configuration
Lookup ==
    /\ Len(lookups) < MaxLookups
    /\ \E url \in LookupURLs :
        \E c \in sourceConfigForRegistry(sourceRegistries, DefaultSource, url) :
            lookups' = Append(lookups, [registryURL |-> url, cfg |-> c])
    /\ UNCHANGED <<sourceRegistries, outsideCreds>>

NextCreds == Lookup

SpecCreds == InitCreds /\ [][NextCreds]_vars

\* the entries of the map whose key is the host, and those whose key
\* normalizes to what the host normalizes to
EntriesUnder(url) == {e \in sourceRegistries : e.key = url}

EntriesNormalizingTo(url) ==
    {e \in sourceRegistries : normalizeURL(e.key) = normalizeURL(url)}

\* C38: the credentials of a source registry are a function of the
\* configuration and the host: the entry whose key is the host, else the
\* entry whose normalized key is the normalized host, else the default
\* source; and two calls for the same host over the same configuration
\* return the same credentials, also when several keys of the map normalize
\* to that host.
C38_CredentialsDeterministic ==
    /\ \A i \in 1..Len(lookups) :
        LET url == lookups[i].registryURL
            user == lookups[i].cfg.Username
        IN  IF EntriesUnder(url) # {}
            THEN \E e \in EntriesUnder(url) : user = e.cfg.Username
            ELSE IF EntriesNormalizingTo(url) # {}
                 THEN \E e \in EntriesNormalizingTo(url) : user = e.cfg.Username
                 ELSE user = DefaultSource.Username
    /\ \A i, j \in 1..Len(lookups) :
        lookups[i].registryURL = lookups[j].registryURL => lookups[i].cfg = lookups[j].cfg

(* ------------------------------------------------------------------ *)
(* Client.GetTagDetail for a tag that names an index                  *)
(* ------------------------------------------------------------------ *)

\* the most children of the index
MaxDetailChildren == 2

S_windows == <<"w", "i", "n", "d", "o", "w", "s">>

P_windows_amd64 == Platform(S_windows, S_amd64, <<>>)

\* a child of the index: its platform (<<>> is nil), whether idx.Image and
\* img.ConfigFile succeed for it, and the creation time of its config file
\* (0 is the zero time)
DetailChild(platform, readable, created) ==
    [Platform |-> platform, readable |-> readable, Created |-> created]

DetailChildren ==
    {DetailChild(p, r, c) :
        p \in {<<>>, <<P_linux_amd64>>, <<P_linux_arm64_v8>>, <<P_unknown>>,
               <<P_windows_amd64>>},
        r \in BOOLEAN,
        c \in 0..2}

\* lines 235-238: os/arch, and /variant when there is one
ArchString(p) ==
    Sprintf_slash(p.OS, p.Architecture)
        \o (IF p.Variant # <<>> THEN <<"/">> \o p.Variant ELSE <<>>)

\* lines 234-249: the architecture of a child appended unless it is there
WithArchitecture(archs, m) ==
    IF m.Platform # <<>> /\ m.Platform[1].Architecture # <<>>
            /\ m.Platform[1].Architecture # S_unknown
    THEN IF \E a \in 1..Len(archs) : archs[a] = ArchString(m.Platform[1])
         THEN archs
         ELSE Append(archs, ArchString(m.Platform[1]))
    ELSE archs

\* lines 251-257: while detail.Created is zero, the creation time of a linux
\* child whose config file can be read
WithCreated(created, m) ==
    IF created = 0 /\ m.Platform # <<>> /\ m.Platform[1].OS = S_linux /\ m.readable
    THEN m.Created
    ELSE created

\* lines 233-258: the loop over manifest.Manifests
RECURSIVE DetailLoop(_, _, _)
DetailLoop(ms, archs, created) ==
    IF ms = <<>> THEN [Architectures |-> archs, Created |-> created]
    ELSE DetailLoop(Tail(ms), WithArchitecture(archs, Head(ms)),
                    WithCreated(created, Head(ms)))

\* lines 219-260: the TagDetail of an index, by how far the call got; nil
\* with an error when remote.Get fails
TagDetailOf(got, isIndex, architectures, created) ==
    [got |-> got, IsIndex |-> isIndex, Size |-> 0, Architectures |-> architectures,
     Created |-> created]

InitDetail ==
    /\ CopyIdle
    /\ ListRunIdle
    /\ PoolIdle
    /\ MigrateIdle
    /\ HarborIdle
    /\ ResolveIdle
    /\ ProxyIdle
    /\ FeedIdle
    /\ tagChildren \in SeqsUpTo(DetailChildren, MaxDetailChildren)
    /\ dpc = "call"
    /\ tagDetail = <<>>

\* lines 205-260 for a tag whose descriptor is an index: remote.Get may
\* fail, and so may desc.ImageIndex and idx.IndexManifest, after which the
\* detail is returned as far as it was filled
GetTagDetail ==
    /\ dpc = "call"
    /\ dpc' = "done"
    /\ \/ tagDetail' = <<TagDetailOf("error", FALSE, <<>>, 0)>>
       \/ tagDetail' = <<TagDetailOf("descriptor", TRUE, <<>>, 0)>>
       \/ LET d == DetailLoop(tagChildren, <<>>, 0)
          IN  tagDetail' = <<TagDetailOf("manifest", TRUE, d.Architectures, d.Created)>>
    /\ UNCHANGED <<tagChildren, outsideDetail>>

NextDetail == GetTagDetail

SpecDetail == InitDetail /\ [][NextDetail]_vars

\* the children in another order
Reordered(ms) == {[i \in 1..Len(ms) |-> ms[p[i]]] : p \in Permutations(1..Len(ms))}

\* the os/arch[/variant] strings of the children that declare an architecture
DeclaredArchitectures(ms) ==
    {ArchString(ms[i].Platform[1]) :
        i \in {j \in 1..Len(ms) : /\ ms[j].Platform # <<>>
                                  /\ ms[j].Platform[1].Architecture \notin {<<>>, S_unknown}}}

\* the non-zero creation times read from the linux children
LinuxCreationTimes(ms) ==
    {ms[i].Created :
        i \in {j \in 1..Len(ms) : /\ ms[j].Platform # <<>>
                                  /\ ms[j].Platform[1].OS = S_linux
                                  /\ ms[j].readable
                                  /\ ms[j].Created # 0}}

\* the earliest of them, the zero time when there is none
EarliestCreated(ms) ==
    IF LinuxCreationTimes(ms) = {} THEN 0 ELSE Min(LinuxCreationTimes(ms))

\* C39: for an index whose manifest was read, the detail says index, has
\* size 0, lists each os/arch[/variant] string of the children once and no
\* other, and has the earliest non-zero creation time of the linux children;
\* and the set of architectures and the creation time are the same for the
\* children in any other order.
C39_IndexDetail ==
    (dpc = "done" /\ tagDetail[1].got = "manifest") =>
        LET d == tagDetail[1]
        IN  /\ d.IsIndex
            /\ d.Size = 0
            /\ \A a, b \in 1..Len(d.Architectures) :
                    d.Architectures[a] = d.Architectures[b] => a = b
            /\ {d.Architectures[a] : a \in 1..Len(d.Architectures)}
                    = DeclaredArchitectures(tagChildren)
            /\ d.Created = EarliestCreated(tagChildren)
            /\ \A ms \in Reordered(tagChildren) :
                LET e == DetailLoop(ms, <<>>, 0)
                IN  /\ {e.Architectures[a] : a \in 1..Len(e.Architectures)}
                            = {d.Architectures[a] : a \in 1..Len(d.Architectures)}
                    /\ e.Created = d.Created

====
